---- MODULE Spec2Model ----
(***************************************************************************)
(* lambda-promtail: one handler invocation turning a source event into     *)
(* labelled log entries, grouping them into a batch of streams and         *)
(* delivering the batch to the push endpoint.                              *)
(*                                                                         *)
(* Strings are sequences of one-character strings, so that concatenation,  *)
(* replacement, search and sorting are computed and not assumed.           *)
(* A label set (model.LabelSet, a Go map) is a function from label names   *)
(* to label values.                                                        *)
(***************************************************************************)
EXTENDS Integers, Sequences, FiniteSets, TLC

(***************************************************************************)
(* Strings                                                                 *)
(***************************************************************************)

\* The characters used by the model, in byte order (Go compares strings
\* bytewise).
Alphabet ==
    << " ", "\"", ",", "-", ".", "/",
       "0", "1", "2", "3", "4", "5", "6", "7", "8", "9", ":", "=",
       "A", "B", "C", "D", "E", "F", "G", "H", "I", "J", "K", "L", "M",
       "N", "O", "P", "Q", "R", "S", "T", "U", "V", "W", "X", "Y", "Z",
       "\\", "_",
       "a", "b", "c", "d", "e", "f", "g", "h", "i", "j", "k", "l", "m",
       "n", "o", "p", "q", "r", "s", "t", "u", "v", "w", "x", "y", "z",
       "{", "}" >>

Code(c) == CHOOSE i \in 1..Len(Alphabet) : Alphabet[i] = c

Min(a, b) == IF a <= b THEN a ELSE b

\* s < t, bytewise (Go's string comparison, used by sort.Strings).
RECURSIVE StrLess(_, _)
StrLess(s, t) ==
    IF t = << >> THEN FALSE
    ELSE IF s = << >> THEN TRUE
    ELSE IF Head(s) = Head(t) THEN StrLess(Tail(s), Tail(t))
    ELSE Code(Head(s)) < Code(Head(t))

\* strings.Join
RECURSIVE Join(_, _)
Join(strs, sep) ==
    IF strs = << >> THEN << >>
    ELSE IF Len(strs) = 1 THEN strs[1]
    ELSE strs[1] \o sep \o Join(Tail(strs), sep)

\* Whether sub occurs in s at position i.
MatchAt(s, sub, i) ==
    /\ i + Len(sub) - 1 <= Len(s)
    /\ \A j \in 1..Len(sub) : s[i + j - 1] = sub[j]

\* strings.Contains
Contains(s, sub) == \E i \in 1..(Len(s) + 1) : MatchAt(s, sub, i)

\* strings.ReplaceAll for a one-character pattern (the replacement of a
\* string is that of its halves).
RECURSIVE ReplaceAll(_, _, _)
ReplaceAll(s, old, new) ==
    IF s = << >> THEN << >>
    ELSE IF Len(s) = 1 THEN (IF s[1] = old THEN new ELSE s)
    ELSE LET h == Len(s) \div 2
         IN  ReplaceAll(SubSeq(s, 1, h), old, new)
             \o ReplaceAll(SubSeq(s, h + 1, Len(s)), old, new)

\* The sequences enumerating the set S once each (the orders in which a Go
\* map over the keys S can be iterated).
Orders(S) ==
    { o \in [1..Cardinality(S) -> S] : \A i, j \in DOMAIN o : o[i] = o[j] => i = j }

(***************************************************************************)
(* Label sets                                                              *)
(***************************************************************************)

NoLabels == << >>

\* One label.
Label(name, value) == (name :> value)

\* labels.Merge(other): a new label set holding the labels of both, the
\* value of other for a name that both hold.
Merge(l, other) ==
    [ n \in (DOMAIN l) \cup (DOMAIN other) |->
        IF n \in DOMAIN other THEN other[n] ELSE l[n] ]

(***************************************************************************)
(* Stream Key Resolver                                                     *)
(***************************************************************************)

\* A label value as a quoted string: " and \ are escaped.
RECURSIVE Escape(_)
Escape(v) ==
    IF v = << >> THEN << >>
    ELSE (IF Head(v) = "\"" THEN << "\\", "\"" >>
          ELSE IF Head(v) = "\\" THEN << "\\", "\\" >>
          ELSE << Head(v) >>) \o Escape(Tail(v))

Quote(v) == << "\"" >> \o Escape(v) \o << "\"" >>

\* name inserted into the sorted sequence of names at its place.
RECURSIVE InsertSorted(_, _)
InsertSorted(name, sorted) ==
    IF sorted = << >> THEN << name >>
    ELSE IF StrLess(name, Head(sorted)) THEN << name >> \o sorted
    ELSE << Head(sorted) >> \o InsertSorted(name, Tail(sorted))

\* The names in the order the map happens to be iterated in, unsorted.
UnsortedNames(names) == names

\* The names of the sequence names, sorted.
RECURSIVE SortNames(_)
SortNames(names) ==
    IF names = << >> THEN << >>
    ELSE InsertSorted(Head(names), SortNames(Tail(names)))

\* resolve(labels): the stream key of a label set, {name="value", ...} with
\* the labels sorted by name.  order is the order in which the map ls is
\* iterated.
resolve(ls, order) ==
    LET sorted == SortNames(order)
        lstrs  == [ i \in 1..Len(sorted) |->
                      sorted[i] \o << "=" >> \o Quote(ls[sorted[i]]) ]
    IN  << "{" >> \o Join(lstrs, << ",", " " >>) \o << "}" >>

\* One order in which the set S is iterated.
RECURSIVE SomeOrder(_)
SomeOrder(S) ==
    IF S = {} THEN << >>
    ELSE LET x == CHOOSE y \in S : TRUE
         IN  << x >> \o SomeOrder(S \ {x})

\* The stream key of ls as the batch computes it.
StreamKey(ls) == resolve(ls, SomeOrder(DOMAIN ls))

(***************************************************************************)
(* Structured text (gjson)                                                 *)
(*                                                                         *)
(* A text is a record: valid (gjson.Valid), doc (the parsed value, when    *)
(* valid), n (its length in bytes), region (what searchRegionFromIp finds  *)
(* in it, empty when nothing) and ts (the timestamp timestampRegex finds). *)
(* A value is [t, s, kids]: t its type, s its string (a string's content,  *)
(* a number's raw text), kids the members of an object or the elements of  *)
(* an array, each [k, v] (k is empty for an array element).                *)
(***************************************************************************)

Str(s) == [t |-> "String", s |-> s, kids |-> << >>]
Num(s) == [t |-> "Number", s |-> s, kids |-> << >>]
Null == [t |-> "Null", s |-> << >>, kids |-> << >>]
\* true and false: the type is True or False, s the raw text.
Bool(b) ==
    [t |-> IF b THEN "True" ELSE "False",
     s |-> IF b THEN << "t", "r", "u", "e" >> ELSE << "f", "a", "l", "s", "e" >>,
     kids |-> << >>]
Obj(kids) == [t |-> "Object", s |-> << >>, kids |-> kids]
Arr(kids) == [t |-> "Array", s |-> << >>, kids |-> kids]
KV(k, v) == [k |-> k, v |-> v]

\* value.Type == gjson.JSON
IsJSON(v) == v.t \in {"Object", "Array"}

\* The result of a lookup that finds nothing.
NotExists == Null

Digits == << "0", "1", "2", "3", "4", "5", "6", "7", "8", "9" >>

\* fmt.Sprint(i) for i >= 0
RECURSIVE Itoa(_)
Itoa(i) ==
    IF i < 10 THEN << Digits[i + 1] >>
    ELSE Itoa(i \div 10) \o << Digits[(i % 10) + 1] >>

\* strings.Split(s, "."): the parts of s between its dots.
SplitDots(s) ==
    LET dots   == {i \in 1..Len(s) : s[i] = "."}
        n      == Cardinality(dots)
        pos(k) == CHOOSE i \in dots : Cardinality({j \in dots : j < i}) = k - 1
    IN  [k \in 1..(n + 1) |->
            SubSeq(s, IF k = 1 THEN 1 ELSE pos(k - 1) + 1,
                      IF k = n + 1 THEN Len(s) ELSE pos(k) - 1)]

\* The index a path component names, -1 when it is not a number.
RECURSIVE Atoi(_, _)
Atoi(s, acc) ==
    IF s = << >> THEN acc
    ELSE IF \E d \in 1..10 : Digits[d] = Head(s)
         THEN Atoi(Tail(s), acc * 10 + (CHOOSE d \in 1..10 : Digits[d] = Head(s)) - 1)
         ELSE -1

\* gjson's walk along the components of a path.
RECURSIVE GetPath(_, _)
GetPath(v, comps) ==
    IF comps = << >> THEN v
    ELSE IF v.t = "Object"
         THEN IF \E i \in 1..Len(v.kids) : v.kids[i].k = Head(comps)
              THEN LET i == CHOOSE i \in 1..Len(v.kids) :
                                /\ v.kids[i].k = Head(comps)
                                /\ \A j \in 1..(i - 1) : v.kids[j].k # Head(comps)
                   IN  GetPath(v.kids[i].v, Tail(comps))
              ELSE NotExists
    ELSE IF v.t = "Array"
         THEN LET idx == IF Head(comps) = << >> THEN -1 ELSE Atoi(Head(comps), 0)
              IN  IF idx >= 0 /\ idx < Len(v.kids)
                  THEN GetPath(v.kids[idx + 1].v, Tail(comps))
                  ELSE NotExists
    ELSE NotExists

\* gjson.Get(text, path)
Get(text, path) ==
    IF path = << >> THEN NotExists ELSE GetPath(text.doc, SplitDots(path))

(***************************************************************************)
(* Structured Flattening Engine (parser_json.go)                           *)
(***************************************************************************)

MaxValueLen == 6048
MaxPathLen == 1024

validPath(path) ==
    ReplaceAll(ReplaceAll(path, "-", << "_" >>), ".", << "_", "_" >>)

\* get_paths on the value v (the text is valid): the paths of the scalars
\* below v, in document order.
RECURSIVE get_paths(_, _)
get_paths(v, parent_path) ==
    LET new_path(i) ==
            IF Len(parent_path) = 0 THEN v.kids[i].k
            ELSE IF v.t = "Array" THEN parent_path \o << "." >> \o Itoa(i - 1)
            ELSE parent_path \o << "." >> \o v.kids[i].k
        RECURSIVE each(_)
        each(i) ==
            IF i > Len(v.kids) THEN << >>
            ELSE (IF ~IsJSON(v.kids[i].v) THEN << new_path(i) >>
                  ELSE get_paths(v.kids[i].v, new_path(i))) \o each(i + 1)
    IN  IF ~IsJSON(v) THEN << << >> >> ELSE each(1)

Upper ==
    << "A", "B", "C", "D", "E", "F", "G", "H", "I", "J", "K", "L", "M",
       "N", "O", "P", "Q", "R", "S", "T", "U", "V", "W", "X", "Y", "Z" >>
Lower ==
    << "a", "b", "c", "d", "e", "f", "g", "h", "i", "j", "k", "l", "m",
       "n", "o", "p", "q", "r", "s", "t", "u", "v", "w", "x", "y", "z" >>

Fold(c) ==
    IF \E i \in 1..Len(Upper) : Upper[i] = c
    THEN Lower[CHOOSE i \in 1..Len(Upper) : Upper[i] = c]
    ELSE c

\* strings.EqualFold
EqualFold(s, t) ==
    /\ Len(s) = Len(t)
    /\ \A i \in 1..Len(s) : Fold(s[i]) = Fold(t[i])

\* strings.Replace(s, old, new, 1)
ReplaceFirst(s, old, new) ==
    IF Contains(s, old)
    THEN LET i == CHOOSE i \in 1..(Len(s) + 1) :
                      /\ MatchAt(s, old, i)
                      /\ \A j \in 1..(i - 1) : ~MatchAt(s, old, j)
         IN  SubSeq(s, 1, i - 1) \o new \o SubSeq(s, i + Len(old), Len(s))
    ELSE s

sHeaders == << "h", "t", "t", "p", "R", "e", "q", "u", "e", "s", "t", ".",
                  "h", "e", "a", "d", "e", "r", "s" >>
sName == << "n", "a", "m", "e" >>
sValue == << "v", "a", "l", "u", "e" >>
sRegion == << "r", "e", "g", "i", "o", "n" >>

\* Whether the sanitized path is one parser_json drops.
Denied(path) ==
    \/ Contains(path, << "r", "u", "l", "e", "G", "r", "o", "u", "p", "L", "i", "s",
                  "t" >>)
    \/ EqualFold(path, << "h", "t", "t", "p", "R", "e", "q", "u", "e", "s", "t", "_",
                  "_", "h", "e", "a", "d", "e", "r", "s", "_", "_", "A", "c",
                  "c", "e", "p", "t" >>)
    \/ Contains(path, << "h", "t", "t", "p", "R", "e", "q", "u", "e", "s", "t", "_",
                  "_", "h", "e", "a", "d", "e", "r", "s", "_", "_", "a", "c",
                  "c", "e", "p", "t", "_", "e", "n", "c", "o", "d", "i", "n",
                  "g" >>)
    \/ Contains(path, << "h", "t", "t", "p", "R", "e", "q", "u", "e", "s", "t", "_",
                  "_", "h", "e", "a", "d", "e", "r", "s", "_", "_", "a", "c",
                  "c", "e", "p", "t", "_", "l", "a", "n", "g", "u", "a", "g",
                  "e" >>)
    \/ Contains(path, << "h", "t", "t", "p", "R", "e", "q", "u", "e", "s", "t", "_",
                  "_", "h", "e", "a", "d", "e", "r", "s", "_", "_", "c", "a",
                  "c", "h", "e", "_", "c", "o", "n", "t", "r", "o", "l" >>)
    \/ Contains(path, << "h", "t", "t", "p", "R", "e", "q", "u", "e", "s", "t", "_",
                  "_", "h", "e", "a", "d", "e", "r", "s", "_", "_", "a", "u",
                  "t", "h", "o", "r", "i", "z", "a", "t", "i", "o", "n" >>)
    \/ Contains(path, << "h", "t", "t", "p", "R", "e", "q", "u", "e", "s", "t", "_",
                  "_", "h", "e", "a", "d", "e", "r", "s", "_", "_", "I", "f",
                  "_", "M", "o", "d", "i", "f", "i", "e", "d", "_", "S", "i",
                  "n", "c", "e" >>)
    \/ Contains(path, << "h", "t", "t", "p", "R", "e", "q", "u", "e", "s", "t", "_",
                  "_", "r", "e", "q", "u", "e", "s", "t", "I", "d" >>)

\* value.Str
StrOf(value) == IF value.t = "String" THEN value.s ELSE << >>

\* value.Str, value.Raw for a number, "" for null
value_label(value) ==
    IF value.t \in {"String", "Number"} THEN value.s ELSE << >>

\* The value of a header keeps the path of its place in the list.
headerPathByIndex(text, path) == path

\* The path of a value below httpRequest.headers is named by the header.
headerPath(text, path) ==
    IF Contains(path, sHeaders) /\ Contains(path, sValue)
    THEN sHeaders \o << "." >>
         \o StrOf(Get(text, ReplaceFirst(path, sValue, sName)))
    ELSE path

\* The character e with an acute accent, of two bytes in UTF-8 (spelled in
\* ASCII here).
Eacute == "e'"

\* len(s): the number of bytes of the string s.
ByteLen(s) == Len(s) + Cardinality({i \in 1..Len(s) : s[i] = Eacute})

\* The bound is taken to be exceeded when it is reached.
exceedsOrReaches(n, limit) == n >= limit

\* len(s) > limit
exceeds(n, limit) == n > limit

\* One turn of parser_json's loop over the paths: labels with the label of
\* path added, unless the path is skipped.
parser_json_path(text, labels, path) ==
    LET value == Get(text, path)
        vl    == value_label(value)
        path2 == headerPath(text, path)
    IN  IF Contains(path, sHeaders) /\ Contains(path, sName) THEN labels
        ELSE IF exceeds(ByteLen(vl), MaxValueLen) THEN labels
        ELSE IF exceeds(ByteLen(path2), MaxPathLen) THEN labels
        ELSE IF Denied(validPath(path2)) THEN labels
        ELSE Merge(labels, Label(validPath(path2), vl))

RECURSIVE parser_json_loop(_, _, _)
parser_json_loop(text, labels, paths) ==
    IF paths = << >> THEN labels
    ELSE parser_json_loop(text, parser_json_path(text, labels, Head(paths)),
                          Tail(paths))

\* parser_json without the region label for a text that is not valid.
parser_json_emptyOnInvalid(text) ==
    LET labels == IF text.region # << >>
                  THEN Merge(NoLabels, Label(sRegion, text.region))
                  ELSE NoLabels
    IN  IF ~text.valid THEN NoLabels
        ELSE parser_json_loop(text, labels, get_paths(text.doc, << >>))

\* parser_json(text): the labels flattened from a text.
parser_json(text) ==
    LET labels == IF text.region # << >>
                  THEN Merge(NoLabels, Label(sRegion, text.region))
                  ELSE NoLabels
    IN  IF ~text.valid THEN labels
        ELSE parser_json_loop(text, labels, get_paths(text.doc, << >>))


(***************************************************************************)
(* Inputs                                                                  *)
(***************************************************************************)

\* A text: raw its bytes; ts what timestampRegex and time.Parse make of it
\* ("none": no match, "bad": a match time.Parse rejects, else the time).
Text(raw, valid, doc, region, ts) ==
    [raw |-> raw, valid |-> valid, doc |-> doc, region |-> region, ts |-> ts]

\* {"a":"x"}
LineJsonX ==
    Text(<< "{", "\"", "a", "\"", ":", "\"", "x", "\"", "}" >>,
         TRUE, Obj(<< KV(<< "a" >>, Str(<< "x" >>)) >>), << >>, "none")
\* a 2023-01-02T03:04:05.6Z
LineTs ==
    Text(<< "a", " ", "2", "0", "2", "3", "-", "0", "1", "-", "0", "2",
            "T", "0", "3", ":", "0", "4", ":", "0", "5", ".", "6", "Z" >>,
         FALSE, Null, << >>, "t1")
\* a 1-1-1T1:1:1.1Z
LineBadTs ==
    Text(<< "a", " ", "1", "-", "1", "-", "1", "T", "1", ":", "1", ":",
            "1", ".", "1", "Z" >>,
         FALSE, Null, << >>, "bad")
\* {"b":{}}
TextEmptyObj ==
    Text(<< "{", "\"", "b", "\"", ":", "{", "}", "}" >>,
         TRUE, Obj(<< KV(<< "b" >>, Obj(<< >>)) >>), << >>, "none")

\* The lines an S3 object is made of.
LogLines == {LineJsonX, LineTs, LineBadTs}

\* The events that match no known schema.
UnknownEvents == {LineJsonX, TextEmptyObj}

NoText == Text(<< >>, FALSE, Null, << >>, "none")

Events ==
    {[kind |-> "S3Event", text |-> NoText],
     [kind |-> "S3TestEvent", text |-> NoText]}
    \cup {[kind |-> "unknown", text |-> t] : t \in UnknownEvents}

FLOW_LOG_TYPE == << "v", "p", "c", "f", "l", "o", "w", "l", "o", "g", "s" >>
LB_LOG_TYPE == << "e", "l", "a", "s", "t", "i", "c", "l", "o", "a", "d", "b",
            "a", "l", "a", "n", "c", "i", "n", "g" >>
NETWORK_FIREWALL_LOG_TYPE == << "n", "e", "t", "w", "o", "r", "k", "-", "f", "i", "r", "e",
            "w", "a", "l", "l" >>
WAF_LOG_TYPE == << "w", "a", "f" >>
RDS_LOG_TYPE == << "r", "d", "s" >>

\* labels[key] of a Go map[string]string: "" for a key it does not hold.
Lookup(m, key) == IF key \in DOMAIN m THEN m[key] ELSE << >>

\* What getLabels returns for the records of the event.
S3Records ==
    {[type |-> FLOW_LOG_TYPE, src |-> << "s" >>, account_id |-> << "1" >>,
      key |-> << "f", ".", "g", "z" >>],
     [type |-> LB_LOG_TYPE, src |-> << "s" >>, account_id |-> << "1" >>,
      key |-> << "l", "b" >>]}

\* The EXTRA_LABELS setupArguments accepted (OMIT_EXTRA_LABELS_PREFIX set).
ExtraLabelSets == {NoLabels, Label(<< "a" >>, << "e" >>)}

\* The BATCH_SIZE setupArguments read: 0 for a value strconv.Atoi rejects,
\* 131072 when it is unset.
BatchSizes == {20, 131072}

\* The answers of the push endpoint to one request.
Responses ==
    {[err |-> "none", status |-> 200], [err |-> "none", status |-> 400],
     [err |-> "none", status |-> 429], [err |-> "none", status |-> 500],
     [err |-> "network", status |-> 0], [err |-> "timeout", status |-> 0]}

NoResponse == [err |-> "unsent", status |-> 0]

\* Bounds of the model.
MaxRecords == 2
MaxLines == 3
MaxRetries == 3
MinBackoff == 1
MaxBackoff == 3

(***************************************************************************)
(* State                                                                   *)
(***************************************************************************)

VARIABLES
    ev,           \* the event the handler is invoked with
    extraLabels,  \* main.go: the operator's extra labels
    batchSize,    \* main.go: the auto-flush threshold
    pc,           \* where the invocation is
    nrec,         \* processS3Event: records taken from ev.Records
    labels,       \* parseS3Log: the labels of the record read
    lineCount,    \* parseS3Log: lines scanned in the object
    nlines,       \* lines scanned in the invocation
    ls,           \* parseS3Log: the label set of the next entry
    timestamp,    \* parseS3Log: the timestamp of the next entry
    batch,        \* the invocation's batch: [streams, size]
    sendState,    \* the state of the sendToPromtail call in progress
    attempts,     \* requests it has made
    delay,        \* its next backoff wait
    lastResp,     \* the answer to its last request
    waits,        \* backoff waits it has made
    sendNo,       \* sendToPromtail calls of the invocation
    appended,     \* history: the entries b.add accepted, in order
    pending,      \* history: those added since the batch was last emptied
    delivered,    \* history: the streams of each batch sent with success
    failedAt,     \* history: the sendToPromtail call that returned an error
    result,       \* what handler returns
    calc          \* a call of a pure function: its arguments and its result

vars ==
    << ev, extraLabels, batchSize, pc, nrec, labels, lineCount, nlines, ls,
       timestamp, batch, sendState, attempts, delay, lastResp, waits, sendNo,
       appended, pending, delivered, failedAt, result, calc >>

(***************************************************************************)
(* Batch Aggregator                                                        *)
(***************************************************************************)

\* newBatch, resetBatch
EmptyBatch == [streams |-> << >>, size |-> 0]

\* The entry a line makes: id is its place among the appended entries.
Entry(id, lbls, line, ts) == [id |-> id, labels |-> lbls, line |-> line, ts |-> ts]

\* An added entry starts its stream anew even when the batch holds its key.
addAlwaysNewStream(b, e) ==
    [streams |-> [k \in (DOMAIN b.streams) \cup {StreamKey(e.labels)} |->
                    IF k = StreamKey(e.labels)
                    THEN [labels |-> e.labels,
                          entries |-> << [id |-> e.id, line |-> e.line, ts |-> e.ts] >>]
                    ELSE b.streams[k]],
     size |-> b.size + Len(e.line)]

\* b.add(e) up to the size check: the entry appended to the stream of its
\* key, which is created when the batch does not hold it, and the size
\* grown by the line's length.
add(b, e) ==
    LET key == StreamKey(e.labels)
        ent == [id |-> e.id, line |-> e.line, ts |-> e.ts]
    IN  [streams |-> [k \in (DOMAIN b.streams) \cup {key} |->
                        IF k = key
                        THEN IF key \in DOMAIN b.streams
                             THEN [b.streams[key] EXCEPT !.entries = Append(@, ent)]
                             ELSE [labels |-> e.labels, entries |-> << ent >>]
                        ELSE b.streams[k]],
         size |-> b.size + Len(e.line)]

\* An entry without labels is rejected.
InvalidEntry(e) == DOMAIN e.labels = {}

\* The size check is dropped: the batch is never sent from b.add.
neverFlush(b) == FALSE

\* Whether b.add sends the batch after an append.
mustFlush(b) == b.size >= batchSize

(***************************************************************************)
(* Delivery Client                                                         *)
(***************************************************************************)

Terminal == {"Success", "Fatal", "Exhausted"}

\* Every answer but a success is retried.
ClassifyRetryAll(resp) ==
    IF resp.err = "none" /\ resp.status \div 100 = 2 THEN "Success"
    ELSE "Retryable"

\* Nothing is retried: every answer but a success ends the call.
ClassifyNoRetry(resp) ==
    IF resp.err = "none" /\ resp.status \div 100 = 2 THEN "Success"
    ELSE "Fatal"

\* The class of the answer to one request.
Classify(resp) ==
    IF resp.err # "none" THEN "Retryable"
    ELSE IF resp.status \div 100 = 2 THEN "Success"
    ELSE IF resp.status = 429 \/ resp.status \div 100 = 5 THEN "Retryable"
    ELSE "Fatal"

\* The retry budget is not checked.
AfterAttemptNoBudget(class, n) == class

\* The state of the call after its n-th request was answered with class.
AfterAttempt(class, n) ==
    IF class = "Retryable" /\ n >= MaxRetries THEN "Exhausted" ELSE class

\* The wait after the one of d.
NextDelay(d) == Min(d * 2, MaxBackoff)

\* The error sendToPromtail returns in a terminal state.
SendError(state) ==
    IF state = "Fatal" THEN "DeliveryFatal"
    ELSE IF state = "Exhausted" THEN "DeliveryExhausted"
    ELSE "nil"

\* sendToPromtail is called with the batch.
SendStart ==
    /\ sendState' = "Attempting"
    /\ attempts' = 0
    /\ delay' = MinBackoff
    /\ lastResp' = NoResponse
    /\ waits' = << >>
    /\ sendNo' = sendNo + 1

SendIdle == UNCHANGED << sendState, attempts, delay, lastResp, waits, sendNo >>

\* sendToPromtail returns: its locals are gone.
SendReturn ==
    /\ sendState' = "Idle"
    /\ attempts' = 0
    /\ delay' = MinBackoff
    /\ lastResp' = NoResponse
    /\ waits' = << >>
    /\ UNCHANGED sendNo


(***************************************************************************)
(* Event adapters                                                          *)
(***************************************************************************)

\* applyExtraLabels with the receiver and the argument exchanged.
applyExtraLabelsSwapped(lbls) == Merge(extraLabels, lbls)

applyExtraLabels(lbls) == Merge(lbls, extraLabels)

\* parseS3Log: the log type named in the static labels.
logTypeOf(m) ==
    IF Lookup(m, "type") = FLOW_LOG_TYPE THEN << "s", "3", "_", "v", "p", "c", "_", "f", "l", "o",
                             "w" >>
    ELSE IF Lookup(m, "type") = LB_LOG_TYPE THEN << "s", "3", "_", "l", "b" >>
    ELSE IF Lookup(m, "type") = RDS_LOG_TYPE
         THEN << "s", "3", "_", "r", "d", "s", "_" >> \o Lookup(m, "log_type")
    ELSE IF Lookup(m, "type") = WAF_LOG_TYPE THEN << "s", "3", "_", "w", "a", "f" >>
    ELSE IF Lookup(m, "type") = NETWORK_FIREWALL_LOG_TYPE
         THEN << "s", "3", "_", "n", "e", "t", "w", "o", "r", "k",
                             "_", "f", "i", "r", "e", "w", "a", "l", "l" >>
    ELSE Lookup(m, "type")

skipHeaderOf(m) == Lookup(m, "type") = FLOW_LOG_TYPE

sAws == << "_", "_", "a", "w", "s", "_" >>

\* parseS3Log: the static labels of an object, with the extra labels.
staticLabels(m) ==
    applyExtraLabels(
        Merge(Merge(Label(<< "_", "_", "a", "w", "s", "_", "l", "o", "g", "_",
                             "t", "y", "p", "e" >>,
                          logTypeOf(m)),
                    Label(sAws \o logTypeOf(m), Lookup(m, "src"))),
              Label(sAws \o logTypeOf(m) \o << "_", "o", "w", "n", "e", "r" >>,
                    Lookup(m, "account_id"))))

\* An error of b.add is dropped by parseS3Log.
parseS3LogAddErrDropped(err) == "nil"

\* parseS3Log returns the error of b.add.
parseS3LogAddErr(err) == err

\* processS3Event returns the error of parseS3Log.
processS3EventParseErr(err) == err

\* The error of the last sendToPromtail is dropped by processS3Event.
processS3EventSendErrDropped(err) == "nil"

\* processS3Event returns the error of the last sendToPromtail.
processS3EventSendErr(err) == err

\* parserEvent returns the error of b.add.
parserEventAddErr(err) == err

\* processEvent wraps the error of parserEvent.
processEventParserErr(err) ==
    IF err = "nil" THEN "nil" ELSE "error parsing log event"

\* processEvent returns the error of the last sendToPromtail.
processEventSendErr(err) == err

IsS3 == ev.kind = "S3Event"

\* The error handler returns for an error err of b.add.
AddErr(err) ==
    IF IsS3 THEN processS3EventParseErr(parseS3LogAddErr(err))
    ELSE processEventParserErr(parserEventAddErr(err))

\* b.add of the entry (lbls, line, ts), as called by parseS3Log and by
\* parserEvent: next is where the caller goes on when b.add returns nil
\* without sending.
AddEntry(lbls, line, ts, next) ==
    LET e == Entry(Len(appended) + 1, lbls, line, ts)
    IN  IF InvalidEntry(e)
        THEN /\ result' = AddErr("InvalidEntry")
             /\ pc' = "done"
             /\ UNCHANGED << batch, appended, pending >>
             /\ SendIdle
        ELSE /\ batch' = add(batch, e)
             /\ appended' = Append(appended, e)
             /\ pending' = Append(pending, e)
             /\ UNCHANGED result
             /\ IF mustFlush(add(batch, e))
                THEN pc' = "flush" /\ SendStart
                ELSE next

\* handler (main.go): the event is routed by its type; an event of no known
\* type is an error.
handler ==
    /\ pc = "handler"
    /\ \/ /\ ev.kind = "S3Event"
          /\ batch' = EmptyBatch
          /\ pc' = "records"
          /\ UNCHANGED result
       \/ /\ ev.kind = "S3TestEvent"
          /\ pc' = "done"
          /\ result' = "nil"
          /\ UNCHANGED batch
       \/ /\ ev.kind = "unknown"
          /\ pc' = "done"
          /\ result' = "unknown event type!"
          /\ UNCHANGED batch
    /\ SendIdle
    /\ UNCHANGED << failedAt, calc, ev, extraLabels, batchSize, nrec, labels, lineCount, nlines,
                    ls, timestamp, appended, pending, delivered >>

\* handler (the variant of part_000): an event of no known type goes to
\* processEvent, which creates the batch.
handler_processEvent ==
    /\ pc = "handler"
    /\ ev.kind = "unknown"
    /\ batch' = EmptyBatch
    /\ pc' = "parserEvent"
    /\ SendIdle
    /\ UNCHANGED << failedAt, calc, ev, extraLabels, batchSize, nrec, labels, lineCount, nlines,
                    ls, timestamp, appended, pending, delivered, result >>

\* parserEvent: one entry for the event, then processEvent sends the batch.
parserEvent ==
    /\ pc = "parserEvent"
    /\ ls' = applyExtraLabels(parser_json(ev.text))
    /\ timestamp' = "now"
    /\ AddEntry(ls', ev.text.raw, "now", pc' = "parsed" /\ SendIdle)
    /\ UNCHANGED << failedAt, calc, ev, extraLabels, batchSize, nrec, labels, lineCount, nlines,
                    delivered >>

\* processS3Event: the next record of the event: its labels, the S3 client,
\* the object, and parseS3Log up to its loop.
processS3Record ==
    /\ pc = "records"
    /\ nrec < MaxRecords
    /\ \E m \in S3Records, failure \in {"nil", "getS3Client", "GetObject", "gzip"} :
          /\ failure = "gzip" => Contains(Lookup(m, "key"), << "g", "z" >>)
          /\ nrec' = nrec + 1
          /\ labels' = m
          /\ IF failure = "nil"
             THEN /\ ls' = staticLabels(m)
                  /\ timestamp' = "now"
                  /\ lineCount' = 0
                  /\ pc' = "scan"
                  /\ UNCHANGED result
             ELSE /\ pc' = "done"
                  /\ result' = failure
                  /\ UNCHANGED << ls, timestamp, lineCount >>
    /\ SendIdle
    /\ UNCHANGED << failedAt, calc, ev, extraLabels, batchSize, nlines, batch, appended, pending,
                    delivered >>

\* processS3Event after the last record of the event, processEvent after
\* parserEvent: the batch is sent, whatever it holds.
finalize ==
    /\ pc \in {"records", "parsed"}
    /\ pc' = "final"
    /\ SendStart
    /\ UNCHANGED << failedAt, calc, ev, extraLabels, batchSize, nrec, labels, lineCount, nlines,
                    ls, timestamp, batch, appended, pending, delivered, result >>

\* parseS3Log: one turn of the loop over the lines of the object.
scanLine ==
    /\ pc = "scan"
    /\ nlines < MaxLines
    /\ \E text \in LogLines :
          /\ lineCount' = lineCount + 1
          /\ nlines' = nlines + 1
          /\ IF lineCount' = 1 /\ skipHeaderOf(labels)
             THEN /\ SendIdle
                  /\ UNCHANGED << pc, ls, timestamp, batch, appended, pending, result >>
             ELSE IF text.ts = "bad"
             THEN /\ timestamp' = "zero"
                  /\ pc' = "done"
                  /\ result' = processS3EventParseErr("time.Parse")
                  /\ SendIdle
                  /\ UNCHANGED << ls, batch, appended, pending >>
             ELSE /\ timestamp' = IF text.ts = "none" THEN timestamp ELSE text.ts
                  /\ ls' = Merge(ls, parser_json(text))
                  /\ AddEntry(ls', text.raw, timestamp', pc' = "scan" /\ SendIdle)
    /\ UNCHANGED << failedAt, calc, ev, extraLabels, batchSize, nrec, labels, delivered >>

\* parseS3Log: the object has no more lines; it returns nil.
scanEnd ==
    /\ pc = "scan"
    /\ pc' = "records"
    /\ SendIdle
    /\ UNCHANGED << failedAt, calc, ev, extraLabels, batchSize, nrec, labels, lineCount, nlines,
                    ls, timestamp, batch, appended, pending, delivered, result >>


(***************************************************************************)
(* sendToPromtail, one step at a time                                      *)
(***************************************************************************)

\* One request of sendToPromtail and its answer.
attempt ==
    /\ pc \in {"flush", "final"}
    /\ sendState = "Attempting"
    /\ attempts < MaxRetries
    /\ \E resp \in Responses :
          /\ lastResp' = resp
          /\ attempts' = attempts + 1
          /\ sendState' = AfterAttempt(Classify(resp), attempts + 1)
    /\ UNCHANGED << failedAt, calc, ev, extraLabels, batchSize, pc, nrec, labels, lineCount,
                    nlines, ls, timestamp, batch, delay, waits, sendNo, appended,
                    pending, delivered, result >>

\* The backoff wait before the next request.
backoffWait ==
    /\ pc \in {"flush", "final"}
    /\ sendState = "Retryable"
    /\ sendState' = "Attempting"
    /\ waits' = Append(waits, delay)
    /\ delay' = NextDelay(delay)
    /\ UNCHANGED << failedAt, calc, ev, extraLabels, batchSize, pc, nrec, labels, lineCount,
                    nlines, ls, timestamp, batch, attempts, lastResp, sendNo,
                    appended, pending, delivered, result >>

\* sendToPromtail returns inside b.add (flushBatch): on success the batch is
\* emptied and the caller of b.add goes on, an error goes up to handler.
flushReturn ==
    /\ pc = "flush"
    /\ sendState \in Terminal
    /\ IF SendError(sendState) = "nil"
       THEN /\ batch' = EmptyBatch
            /\ pending' = << >>
            /\ delivered' = Append(delivered, batch.streams)
            /\ UNCHANGED result
            /\ pc' = IF IsS3 THEN "scan" ELSE "parsed"
            /\ UNCHANGED failedAt
       ELSE /\ result' = AddErr(SendError(sendState))
            /\ pc' = "done"
            /\ failedAt' = "flush"
            /\ UNCHANGED << batch, pending, delivered >>
    /\ SendReturn
    /\ UNCHANGED << calc, ev, extraLabels, batchSize, nrec, labels, lineCount, nlines,
                    ls, timestamp, appended >>

\* The last sendToPromtail of processS3Event and of processEvent returns.
finalReturn ==
    /\ pc = "final"
    /\ sendState \in Terminal
    /\ result' = IF IsS3 THEN processS3EventSendErr(SendError(sendState))
                 ELSE processEventSendErr(SendError(sendState))
    /\ delivered' = IF sendState = "Success"
                    THEN Append(delivered, batch.streams) ELSE delivered
    /\ failedAt' = IF sendState = "Success" THEN failedAt ELSE "final"
    /\ pc' = "done"
    /\ SendReturn
    /\ UNCHANGED << calc, ev, extraLabels, batchSize, nrec, labels, lineCount, nlines,
                    ls, timestamp, batch, appended, pending >>

Init ==
    /\ ev \in Events
    /\ extraLabels \in ExtraLabelSets
    /\ batchSize \in BatchSizes
    /\ pc = "handler"
    /\ nrec = 0
    /\ labels = << >>
    /\ lineCount = 0
    /\ nlines = 0
    /\ ls = NoLabels
    /\ timestamp = "now"
    /\ batch = EmptyBatch
    /\ sendState = "Idle"
    /\ attempts = 0
    /\ delay = MinBackoff
    /\ lastResp = NoResponse
    /\ waits = << >>
    /\ sendNo = 0
    /\ appended = << >>
    /\ pending = << >>
    /\ delivered = << >>
    /\ failedAt = "none"
    /\ result = "running"
    /\ calc = [op |-> "none"]

Next ==
    \/ handler
    \/ handler_processEvent
    \/ parserEvent
    \/ processS3Record
    \/ finalize
    \/ scanLine
    \/ scanEnd
    \/ attempt
    \/ backoffWait
    \/ flushReturn
    \/ finalReturn

Spec == Init /\ [][Next]_vars

\* An invocation goes on until handler returns: the code is sequential, a
\* request ends with an answer, an error or its timeout, and a backoff wait
\* is a sleep that ends.
FairSpec == Spec /\ WF_vars(Next)


(***************************************************************************)
(* The pure functions, applied once to arguments drawn by PureInit         *)
(***************************************************************************)

LabelNames == {<< "a" >>, << "b" >>, << "a", "1" >>}

\* The last value is x", b="y
LabelValues ==
    {<< "x" >>, << "y" >>, << "x", "\"", ",", " ", "b", "=", "\"", "y" >>}

\* Every label set over LabelNames and LabelValues.
LabelUniverse == UNION {[S -> LabelValues] : S \in SUBSET LabelNames}

PureInit ==
    /\ \E a, b \in LabelUniverse :
          /\ calc = [op |-> "none", a |-> a, b |-> b]
          /\ extraLabels = b
    /\ ev = [kind |-> "S3TestEvent", text |-> NoText]
    /\ batchSize = 131072
    /\ pc = "pure"
    /\ nrec = 0
    /\ labels = << >>
    /\ lineCount = 0
    /\ nlines = 0
    /\ ls = NoLabels
    /\ timestamp = "now"
    /\ batch = EmptyBatch
    /\ sendState = "Idle"
    /\ attempts = 0
    /\ delay = MinBackoff
    /\ lastResp = NoResponse
    /\ waits = << >>
    /\ sendNo = 0
    /\ appended = << >>
    /\ pending = << >>
    /\ delivered = << >>
    /\ failedAt = "none"
    /\ result = "running"

PureFrame ==
    UNCHANGED << ev, extraLabels, batchSize, pc, nrec, labels, lineCount, nlines,
                 ls, timestamp, batch, sendState, attempts, delay, lastResp, waits,
                 sendNo, appended, pending, delivered, failedAt, result >>

\* resolve of the two label sets, each iterated in some order.
resolveKeys ==
    /\ calc.op = "none"
    /\ \E oa \in Orders(DOMAIN calc.a), ob \in Orders(DOMAIN calc.b) :
          calc' = [op |-> "resolve", a |-> calc.a, b |-> calc.b,
                   oa |-> oa, ob |-> ob,
                   ka |-> resolve(calc.a, oa), kb |-> resolve(calc.b, ob)]
    /\ PureFrame

\* applyExtraLabels of the first label set, the second being the extra
\* labels.
mergeLabels ==
    /\ calc.op = "none"
    /\ calc' = [op |-> "merge", a |-> calc.a, b |-> calc.b,
                r |-> applyExtraLabels(calc.a)]
    /\ PureFrame

PureNext == resolveKeys \/ mergeLabels

PureSpec == PureInit /\ [][PureNext]_vars


(***************************************************************************)
(* Delivery: classification, retries, termination, propagation             *)
(***************************************************************************)

\* A 4xx answer other than 429.
IsFatalResp(r) == r.err = "none" /\ r.status \div 100 = 4 /\ r.status # 429

\* A network error, a timeout, a 5xx answer or a 429 answer.
IsRetryableResp(r) ==
    \/ r.err \in {"network", "timeout"}
    \/ r.err = "none" /\ (r.status \div 100 = 5 \/ r.status = 429)

\* The errors handler returns for a delivery that failed with err.
Surfaced(err) == {err, "error parsing log event"}

\* C1: an attempt answered with a 4xx status other than 429 is the last
\* attempt of its delivery call, however many attempts remain: the call is
\* in its Fatal outcome at once, no request and no wait follows, and the
\* invocation returns DeliveryFatal.
C1_FatalIsImmediate ==
    /\ [](IsFatalResp(lastResp) => sendState = "Fatal")
    /\ [][sendState = "Fatal" =>
            (/\ sendState' = "Idle"
             /\ sendNo' = sendNo
             /\ pc' = "done"
             /\ result' \in Surfaced("DeliveryFatal"))]_vars

\* C1: the first attempt of a call is answered 400 and the call is Fatal
\* with attempts to spare.
C1_Witness ==
    /\ lastResp.status = 400
    /\ sendState = "Fatal"
    /\ attempts = 1
    /\ attempts < MaxRetries

\* The waits of a call start at MinBackoff, grow and stay within MaxBackoff.
WaitsBackOff ==
    \A i \in 1..Len(waits) :
        /\ waits[i] >= MinBackoff
        /\ waits[i] <= MaxBackoff
        /\ i > 1 => waits[i] >= waits[i - 1]

\* C2: a retryable answer (network error, timeout, 5xx, 429) is followed by
\* a backoff wait and another attempt while fewer than the maximum number of
\* attempts were made; there is one wait between two attempts; a call never
\* makes more than the maximum number of attempts; a retryable answer to the
\* last allowed attempt ends the call with DeliveryExhausted.
C2_RetryWithinBudget ==
    /\ [](/\ attempts <= MaxRetries
          /\ WaitsBackOff
          /\ sendState = "Attempting" => Len(waits) = attempts
          /\ sendState \in Terminal \cup {"Retryable"} => Len(waits) = attempts - 1
          /\ IsRetryableResp(lastResp) /\ attempts < MaxRetries =>
                sendState \in {"Retryable", "Attempting"}
          /\ IsRetryableResp(lastResp) /\ attempts >= MaxRetries =>
                sendState = "Exhausted")
    /\ [][sendState = "Retryable" =>
            (/\ sendState' = "Attempting"
             /\ attempts' = attempts
             /\ waits' = Append(waits, waits'[Len(waits')]))]_vars
    /\ [][sendState = "Exhausted" =>
            (/\ sendState' = "Idle"
             /\ sendNo' = sendNo
             /\ pc' = "done"
             /\ result' \in Surfaced("DeliveryExhausted"))]_vars

\* C2: every allowed attempt was answered with a retryable answer, with a
\* wait before each attempt but the first, and the call is exhausted.
C2_Witness ==
    /\ sendState = "Exhausted"
    /\ attempts = MaxRetries
    /\ Len(waits) = MaxRetries - 1
    /\ lastResp.status = 429

\* C3: a delivery call that was started ends in one of Success, Fatal and
\* Exhausted; from that outcome the call returns, with no further attempt
\* and no other outcome, in particular no attempt after a success.
C3_SendTerminatesOnce ==
    /\ (sendState \in {"Attempting", "Retryable"}) ~> (sendState \in Terminal)
    /\ [][(sendState \in Terminal) =>
            (/\ sendState' = "Idle"
             /\ attempts' = 0
             /\ lastResp' = NoResponse
             /\ sendNo' = sendNo)]_vars

\* C3: a call succeeds after a retried attempt.
C3_Witness ==
    /\ sendState = "Success"
    /\ attempts >= 2
    /\ lastResp.status = 200

\* C4: a delivery that failed, in the send b.add makes or in the last send
\* of processS3Event and processEvent, ends the invocation with a non-nil
\* error.
C4_DeliveryErrorPropagates ==
    failedAt # "none" => pc = "done" /\ result \notin {"nil", "running"}

\* C4: the send b.add made for the second line of an S3 object failed and
\* the invocation returned its error.
C4_Witness ==
    /\ failedAt = "flush"
    /\ IsS3
    /\ Len(appended) = 2
    /\ pc = "done"
    /\ result = "DeliveryExhausted"


(***************************************************************************)
(* Batch: streams, flush on size, what is delivered                        *)
(***************************************************************************)

\* The keys of the label sets of the entries es.
KeysOf(es) == {StreamKey(es[i].labels) : i \in 1..Len(es)}

\* What the stream of key k holds of the entries es, in their order.
EntriesOf(es, k) ==
    LET mine == SelectSeq(es, LAMBDA e : StreamKey(e.labels) = k)
    IN  [i \in 1..Len(mine) |->
            [id |-> mine[i].id, line |-> mine[i].line, ts |-> mine[i].ts]]

\* C5: the batch holds one stream for each distinct label set appended since
\* it was last empty: entries of one label set share a stream, entries of
\* different label sets are in different streams, and a stream holds, in
\* their order, the entries whose label set resolves to its key.
C5_OneStreamPerLabelSet ==
    /\ DOMAIN batch.streams = KeysOf(pending)
    /\ Cardinality(DOMAIN batch.streams)
         = Cardinality({pending[i].labels : i \in 1..Len(pending)})
    /\ \A k \in DOMAIN batch.streams :
          /\ StreamKey(batch.streams[k].labels) = k
          /\ batch.streams[k].entries = EntriesOf(pending, k)

\* C5: three appends with no flush between them made two streams, one of
\* which holds two entries.
C5_Witness ==
    /\ Len(pending) = 3
    /\ Cardinality(DOMAIN batch.streams) = 2
    /\ \E k \in DOMAIN batch.streams : Len(batch.streams[k].entries) = 2

\* C6: an append that brings the size of the batch to batchSize or more
\* starts one delivery call of the batch, and no other call is started
\* before that one returned; when it succeeded the batch is empty and its
\* size is 0; an append that leaves the size below batchSize starts no call.
C6_FlushOnSize ==
    /\ [][appended' # appended =>
            IF batch'.size >= batchSize
            THEN pc' = "flush" /\ sendState' = "Attempting" /\ sendNo' = sendNo + 1
            ELSE pc' # "flush" /\ sendState' = "Idle" /\ sendNo' = sendNo]_vars
    /\ [][pc = "flush" => sendNo' = sendNo]_vars
    /\ [][pc = "flush" /\ sendState = "Success" =>
            (/\ batch'.streams = << >>
             /\ batch'.size = 0
             /\ delivered' = Append(delivered, batch.streams))]_vars
    /\ [](pc \in {"scan", "records", "parsed", "final"} => batch.size < batchSize)

\* C6: the second append to a batch brought its size to batchSize, and the
\* delivery call it started succeeded.
C6_Witness ==
    /\ pc = "flush"
    /\ sendState = "Success"
    /\ Len(pending) = 2
    /\ batch.size >= batchSize
    /\ batch.size - Len(pending[2].line) < batchSize

\* The entries of key k of the delivered batches ds, in the order of their
\* delivery.
RECURSIVE DeliveredFor(_, _)
DeliveredFor(ds, k) ==
    IF ds = << >> THEN << >>
    ELSE (IF k \in DOMAIN Head(ds) THEN Head(ds)[k].entries ELSE << >>)
         \o DeliveredFor(Tail(ds), k)

\* Every appended entry is in one delivered batch, in the stream of its key
\* and in the order of the appends.
AllDelivered ==
    /\ \A k \in KeysOf(appended) : DeliveredFor(delivered, k) = EntriesOf(appended, k)
    /\ \A i \in 1..Len(delivered) : DOMAIN delivered[i] \subseteq KeysOf(appended)

C8_NoSendOfEmptyBatch == pc = "final" => pending # << >>


(***************************************************************************)
(* resolve and Merge                                                       *)
(***************************************************************************)

\* The labels of the load balancer log of Test_parseS3Log.
LbTestLabels ==
    Merge(Merge(Label(<< "_", "_", "a", "w", "s", "_", "s", "3", "_", "l", "b", "_", "o", "w", "n", "e", "r" >>,
                      << "1", "2", "3", "4", "5", "6", "7", "8", "9" >>),
                Label(<< "_", "_", "a", "w", "s", "_", "l", "o", "g", "_", "t", "y", "p", "e" >>,
                      << "s", "3", "_", "l", "b" >>)),
          Label(<< "_", "_", "a", "w", "s", "_", "s", "3", "_", "l", "b" >>, << "s", "o", "u", "r", "c", "e" >>))

\* {__aws_log_type="s3_lb", __aws_s3_lb="source", __aws_s3_lb_owner="123456789"}
LbTestStream ==
    << "{", "_", "_", "a", "w", "s", "_", "l", "o", "g", "_", "t", "y", "p", "e", "=", "\"", "s", "3", "_", "l", "b", "\"", ",", " ", "_", "_", "a", "w", "s", "_", "s", "3", "_", "l", "b", "=", "\"", "s", "o", "u", "r", "c", "e", "\"", ",", " ", "_", "_", "a", "w", "s", "_", "s", "3", "_", "l", "b", "_", "o", "w", "n", "e", "r", "=", "\"", "1", "2", "3", "4", "5", "6", "7", "8", "9", "\"", "}" >>

\* C9: resolve gives two label sets of the same pairs the same key whatever
\* the order their labels are met in, and two label sets that differ in a
\* pair different keys; the key lists the labels sorted by name, as
\* {name="value", ...}.
C9_ResolveIsCanonical ==
    /\ calc.op = "resolve" => (calc.a = calc.b <=> calc.ka = calc.kb)
    /\ calc.op = "resolve" /\ Cardinality(DOMAIN calc.a) = 1 =>
          \E n \in DOMAIN calc.a :
              calc.ka = << "{" >> \o n \o << "=" >> \o Quote(calc.a[n]) \o << "}" >>
    /\ \A o \in Orders(DOMAIN LbTestLabels) : resolve(LbTestLabels, o) = LbTestStream

\* C9: a label set of three labels was resolved twice, its labels met in
\* two different orders, to one key.
C9_Witness ==
    /\ calc.op = "resolve"
    /\ calc.a = calc.b
    /\ Cardinality(DOMAIN calc.a) = 3
    /\ calc.oa # calc.ob
    /\ calc.ka = calc.kb

\* C10: the label set applyExtraLabels returns has the names of its argument
\* and of the extra labels, the value of the extra labels for a name both
\* have and the value of the argument for a name only it has; without extra
\* labels it is the argument; the extra labels are as they were.
C10_MergeRightBiased ==
    calc.op = "merge" =>
        /\ DOMAIN calc.r = DOMAIN calc.a \cup DOMAIN calc.b
        /\ \A n \in DOMAIN calc.b : calc.r[n] = calc.b[n]
        /\ \A n \in DOMAIN calc.a \ DOMAIN calc.b : calc.r[n] = calc.a[n]
        /\ calc.b = NoLabels => calc.r = calc.a
        /\ extraLabels = calc.b

\* C10: the argument and the extra labels have a name in common, with
\* different values, and each has a name the other has not.
C10_Witness ==
    /\ calc.op = "merge"
    /\ \E n \in DOMAIN calc.a \cap DOMAIN calc.b : calc.a[n] # calc.b[n]
    /\ DOMAIN calc.a \ DOMAIN calc.b # {}
    /\ DOMAIN calc.b \ DOMAIN calc.a # {}


(***************************************************************************)
(* parser_json, applied once to a text drawn by FlattenInit                *)
(***************************************************************************)

\* A string of JSON (the strings of the documents hold no character that
\* JSON escapes).
JsonQuote(s) == << "\"" >> \o s \o << "\"" >>

\* The JSON text of the value v.
RECURSIVE Json(_)
Json(v) ==
    IF v.t = "String" THEN JsonQuote(v.s)
    ELSE IF v.t \in {"Number", "True", "False"} THEN v.s
    ELSE IF v.t = "Null" THEN << "n", "u", "l", "l" >>
    ELSE IF v.t = "Object"
         THEN << "{" >>
              \o Join([i \in 1..Len(v.kids) |->
                          JsonQuote(v.kids[i].k) \o << ":" >> \o Json(v.kids[i].v)],
                      << "," >>)
              \o << "}" >>
    ELSE << "[" >>
         \o Join([i \in 1..Len(v.kids) |-> Json(v.kids[i].v)], << "," >>)
         \o << "]" >>

\* The valid text of the document v, in which searchRegionFromIp finds
\* region.
Doc(v, region) == Text(Json(v), TRUE, v, region, "none")

\* The string of n times the character c.
Rep(c, n) == [i \in 1..n |-> c]

sHttpRequest == << "h", "t", "t", "p", "R", "e", "q", "u", "e", "s", "t" >>
sHeadersKey == << "h", "e", "a", "d", "e", "r", "s" >>
sSecret == << "s", "e", "c", "r", "e", "t" >>
sVN == << "V", "N" >>

\* The names of the headers of the documents.
HeaderNames ==
    {<< "A", "u", "t", "h", "o", "r", "i", "z", "a", "t", "i", "o", "n" >>,
     << "a", "u", "t", "h", "o", "r", "i", "z", "a", "t", "i", "o", "n" >>,
     << "A", "c", "c", "e", "p", "t" >>,
     << "a", "c", "c", "e", "p", "t" >>,
     << "A", "c", "c", "e", "p", "t", "-", "E", "n", "c", "o", "d", "i", "n", "g" >>,
     << "a", "c", "c", "e", "p", "t", "-", "e", "n", "c", "o", "d", "i", "n", "g" >>,
     << "A", "c", "c", "e", "p", "t", "-", "L", "a", "n", "g", "u", "a", "g", "e" >>,
     << "a", "c", "c", "e", "p", "t", "-", "l", "a", "n", "g", "u", "a", "g", "e" >>,
     << "C", "a", "c", "h", "e", "-", "C", "o", "n", "t", "r", "o", "l" >>,
     << "c", "a", "c", "h", "e", "-", "c", "o", "n", "t", "r", "o", "l" >>,
     << "I", "f", "-", "M", "o", "d", "i", "f", "i", "e", "d", "-", "S", "i", "n", "c", "e" >>,
     << "i", "f", "-", "m", "o", "d", "i", "f", "i", "e", "d", "-", "s", "i", "n", "c", "e" >>,
     << "C", "o", "n", "t", "e", "n", "t", "-", "T", "y", "p", "e" >>}

\* A list of one {name, value} record.
HeaderList(name, value) ==
    Arr(<< KV(<< >>, Obj(<< KV(sName, Str(name)), KV(sValue, Str(value)) >>)) >>)

\* Documents with one header named n: under httpRequest.headers, under
\* headers at the top of the document, and under x.httpRequest.headers.
HeaderDocOf(n) ==
    {Obj(<< KV(sHttpRequest, Obj(<< KV(sHeadersKey, HeaderList(n, sSecret)) >>)) >>),
     Obj(<< KV(sHeadersKey, HeaderList(n, sSecret)) >>),
     Obj(<< KV(<< "x" >>,
               Obj(<< KV(sHttpRequest,
                         Obj(<< KV(sHeadersKey, HeaderList(n, sSecret)) >>)) >>)) >>)}

HeaderDocs == UNION {HeaderDocOf(n) : n \in HeaderNames}

\* {"httpRequest":{"headers":[{"name":"Content-Type","value":"secret"},
\* {"name":"x","value":"y"}]}}
TwoHeadersDoc ==
    Obj(<< KV(sHttpRequest,
              Obj(<< KV(sHeadersKey,
                        Arr(<< KV(<< >>, Obj(<< KV(sName, Str(<< "C", "o", "n", "t", "e", "n", "t", "-", "T", "y", "p", "e" >>)),
                                                KV(sValue, Str(sSecret)) >>)),
                               KV(<< >>, Obj(<< KV(sName, Str(<< "x" >>)),
                                                KV(sValue, Str(<< "y" >>)) >>)) >>)) >>)) >>)

\* The keys and the scalars of the documents.
LeafKeys == {<< "a" >>, << "a", "-", "b" >>, << "a", " ", "b" >>, << "a", "/", "b" >>}
LeafValues == {Str(<< "x" >>), Num(<< "1", ".", "5", "0" >>), Null, Bool(TRUE)}

\* Documents with one scalar: {k: v}, {"a": {k: v}}, {"a": [{k: v}]},
\* {"a": [v]}, [v] and [{k: v}].
LeafDocs ==
    UNION {{Obj(<< KV(k, v) >>),
            Obj(<< KV(<< "a" >>, Obj(<< KV(k, v) >>)) >>),
            Obj(<< KV(<< "a" >>, Arr(<< KV(<< >>, Obj(<< KV(k, v) >>)) >>)) >>),
            Obj(<< KV(<< "a" >>, Arr(<< KV(<< >>, v) >>)) >>),
            Arr(<< KV(<< >>, v) >>),
            Arr(<< KV(<< >>, Obj(<< KV(k, v) >>)) >>)}
           : k \in LeafKeys, v \in LeafValues}

sRuleGroupList == << "r", "u", "l", "e", "G", "r", "o", "u", "p", "L", "i", "s", "t" >>
sRequestId == << "r", "e", "q", "u", "e", "s", "t", "I", "d" >>

\* Documents with a rule group list and with a request id.
DeniedDocs ==
    {Obj(<< KV(sRuleGroupList, Arr(<< KV(<< >>, Obj(<< KV(<< "x" >>, Str(<< "y" >>)) >>)) >>)) >>),
     Obj(<< KV(<< "a" >>, Obj(<< KV(sRuleGroupList, Obj(<< KV(<< "b" >>, Str(<< "x" >>)) >>)) >>)) >>),
     Obj(<< KV(sHttpRequest, Obj(<< KV(sRequestId, Str(<< "r" >>)) >>)) >>),
     Obj(<< KV(sRequestId, Str(<< "r" >>)) >>)}

\* The lengths of the values and of the paths of the documents.
ValueLens == {100, MaxValueLen, MaxValueLen + 1, 7000}
PathLens == {MaxPathLen, MaxPathLen + 1}

\* {"a": v} with a value of n characters.
LongValueDoc(n) == Obj(<< KV(<< "a" >>, Str(Rep("v", n))) >>)

\* {k: "x"} with a key, its path, of n characters.
LongKeyDoc(n) == Obj(<< KV(Rep("k", n), Str(<< "x" >>)) >>)

\* {"a": {k: "x"}} with a path a.k of n characters.
LongPathDoc(n) ==
    Obj(<< KV(<< "a" >>, Obj(<< KV(Rep("k", n - 2), Str(<< "x" >>)) >>)) >>)

\* {"a": v} with a value of n characters of two bytes each.
AccentedValueDoc(n) == Obj(<< KV(<< "a" >>, Str(Rep(Eacute, n))) >>)

\* Half of MaxValueLen, and one more: the numbers of two-byte characters
\* that reach and exceed it.
AccentedLens == {MaxValueLen \div 2, MaxValueLen \div 2 + 1}

LongDocs ==
    {LongValueDoc(n) : n \in ValueLens}
    \cup {AccentedValueDoc(n) : n \in AccentedLens}
    \cup {LongKeyDoc(n) : n \in PathLens}
    \cup {LongPathDoc(n) : n \in PathLens}

\* {"a":{"b":"x"}} and two scalars below one key.
PlainDocs ==
    {Obj(<< KV(<< "a" >>, Obj(<< KV(<< "b" >>, Str(<< "x" >>)) >>)) >>),
     Obj(<< KV(<< "a" >>, Obj(<< KV(<< "b" >>, Str(<< "x" >>)),
                                 KV(<< "c" >>, Arr(<< KV(<< >>, Str(<< "y" >>)),
                                                     KV(<< >>, Num(<< "2" >>)) >>)) >>)) >>)}

\* A text that is not JSON, in which searchRegionFromIp finds region.
NotJson(region) ==
    Text(<< "1", ".", "2", ".", "3", ".", "4", " ", "x" >>, FALSE, Null, region, "none")

\* The texts parser_json is applied to.
FlattenTexts ==
    {Doc(v, << >>) : v \in HeaderDocs \cup {TwoHeadersDoc} \cup LeafDocs \cup DeniedDocs \cup LongDocs \cup PlainDocs}
    \cup {Doc(v, sVN) : v \in PlainDocs}
    \cup {Doc(Obj(<< KV(sRegion, Str(<< "x" >>)) >>), sVN)}
    \cup {NotJson(<< >>), NotJson(sVN), LineTs}

\* The pipeline does not run.
PipelineIdle ==
    /\ ev = [kind |-> "S3TestEvent", text |-> NoText]
    /\ extraLabels = NoLabels
    /\ batchSize = 131072
    /\ pc = "pure"
    /\ nrec = 0
    /\ labels = << >>
    /\ lineCount = 0
    /\ nlines = 0
    /\ ls = NoLabels
    /\ timestamp = "now"
    /\ batch = EmptyBatch
    /\ sendState = "Idle"
    /\ attempts = 0
    /\ delay = MinBackoff
    /\ lastResp = NoResponse
    /\ waits = << >>
    /\ sendNo = 0
    /\ appended = << >>
    /\ pending = << >>
    /\ delivered = << >>
    /\ failedAt = "none"
    /\ result = "running"

FlattenInit ==
    /\ \E t \in FlattenTexts : calc = [op |-> "none", text |-> t]
    /\ PipelineIdle

\* parser_json of the text.
flatten ==
    /\ calc.op = "none"
    /\ calc' = [op |-> "parser_json", text |-> calc.text, r |-> parser_json(calc.text)]
    /\ PureFrame

FlattenNext == flatten

FlattenSpec == FlattenInit /\ [][FlattenNext]_vars


(***************************************************************************)
(* Claims on parser_json                                                   *)
(***************************************************************************)

\* parser_json was applied to the document v in which no region is found.
Flattened(v) == calc.op = "parser_json" /\ calc.text = Doc(v, << >>)

\* The header names that spell name in some letter case.
Spellings(name) == {n \in HeaderNames : EqualFold(n, name)}

sAuthorization == << "A", "u", "t", "h", "o", "r", "i", "z", "a", "t", "i", "o", "n" >>

\* C11: flattening a document that holds an Authorization header, in any
\* letter case of the header's name and wherever the headers collection
\* sits, gives no label that carries the header's value.
C11_NoAuthorizationValue ==
    \A n \in Spellings(sAuthorization) : \A v \in HeaderDocOf(n) :
        Flattened(v) => \A l \in DOMAIN calc.r : calc.r[l] # sSecret


sContentType == << "C", "o", "n", "t", "e", "n", "t", "-", "T", "y", "p", "e" >>

\* The one record {name: n, value: "secret"} in a list under headers at the
\* top of the document.
TopHeaderDoc(n) == Obj(<< KV(sHeadersKey, HeaderList(n, sSecret)) >>)

HttpHeaderDoc(n) ==
    Obj(<< KV(sHttpRequest, Obj(<< KV(sHeadersKey, HeaderList(n, sSecret)) >>)) >>)

\* The header names of the deny-list, as the specification spells them.
DenyListedNames ==
    {<< "A", "c", "c", "e", "p", "t" >>,
     << "A", "c", "c", "e", "p", "t", "-", "E", "n", "c", "o", "d", "i", "n", "g" >>,
     << "A", "c", "c", "e", "p", "t", "-", "L", "a", "n", "g", "u", "a", "g", "e" >>,
     << "C", "a", "c", "h", "e", "-", "C", "o", "n", "t", "r", "o", "l" >>,
     << "I", "f", "-", "M", "o", "d", "i", "f", "i", "e", "d", "-", "S", "i", "n", "c", "e" >>}

\* The documents of DeniedDocs with the request id of the request and with a
\* rule group list.
DenyListedDocs == {v \in DeniedDocs : v.kids[1].k # sRequestId}

\* C13: flattening emits no label for a path inside a ruleGroupList tree,
\* for the value of a header named Accept, Accept-Encoding, Accept-Language,
\* Cache-Control or If-Modified-Since, or for the request id of the request.
C13_NoDenyListedLabel ==
    /\ \A v \in DenyListedDocs : Flattened(v) => calc.r = NoLabels
    /\ \A n \in DenyListedNames : Flattened(HttpHeaderDoc(n)) => calc.r = NoLabels


\* The characters A-Z, a-z, 0-9 and _.
LabelNameChars ==
    {Upper[i] : i \in 1..Len(Upper)} \cup {Lower[i] : i \in 1..Len(Lower)}
    \cup {Digits[i] : i \in 1..Len(Digits)} \cup {"_"}

\* C14: every label name parser_json puts into the label set consists of
\* the characters A-Z, a-z, 0-9 and _ only, whatever the keys of the
\* document.
C14_LabelNamesSanitized ==
    calc.op = "parser_json"
        => \A l \in DOMAIN calc.r : \A i \in 1..Len(l) : l[i] \in LabelNameChars


\* C15 as stated: a value of at most 6048 characters, at a path of at most
\* 1024 characters that is not dropped, gives its label.
C15_AsStated ==
    \A n \in AccentedLens :
        (Flattened(AccentedValueDoc(n)) /\ n <= 6048)
            => calc.r = Label(<< "a" >>, Rep(Eacute, n))

\* C15: a scalar with a value of more than 6048 bytes, or with a path of
\* more than 1024 bytes before it is sanitized, gives no label; at the same
\* path a value of at most 6048 bytes with a path of at most 1024 bytes
\* gives its label (7000 dropped, 100 kept, 6048 kept, for characters of
\* one byte; 3024 characters of two bytes kept, 3025 dropped).
C15_SizeBounds ==
    /\ \A n \in ValueLens :
           Flattened(LongValueDoc(n))
               => calc.r = IF n > 6048 THEN NoLabels ELSE Label(<< "a" >>, Rep("v", n))
    /\ \A n \in AccentedLens :
           Flattened(AccentedValueDoc(n))
               => calc.r = IF 2 * n > 6048 THEN NoLabels
                           ELSE Label(<< "a" >>, Rep(Eacute, n))
    /\ \A n \in PathLens :
           /\ Flattened(LongKeyDoc(n))
                  => calc.r = IF n > 1024 THEN NoLabels
                              ELSE Label(Rep("k", n), << "x" >>)
           /\ Flattened(LongPathDoc(n))
                  => calc.r = IF n > 1024 THEN NoLabels
                              ELSE Label(<< "a", "_", "_" >> \o Rep("k", n - 2), << "x" >>)

C15_Witness ==
    /\ Flattened(LongValueDoc(6048))
    /\ DOMAIN calc.r = {<< "a" >>}
    /\ Len(calc.r[<< "a" >>]) = 6048


\* C16 as stated: for a text that is not valid JSON parser_json returns the
\* empty label set, also when a region is found for an address in the text.
C16_AsStated ==
    (calc.op = "parser_json" /\ ~calc.text.valid) => calc.r = NoLabels

\* C16: for a text that is not valid JSON parser_json returns the label set
\* holding the region label alone when a region is found for an address in
\* the text, and the empty label set when none is found.
C16_InvalidGivesRegionOnly ==
    (calc.op = "parser_json" /\ ~calc.text.valid)
        => calc.r = IF calc.text.region = << >> THEN NoLabels
                    ELSE Label(sRegion, calc.text.region)

C16_Witness ==
    /\ calc.op = "parser_json"
    /\ calc.text = NotJson(sVN)
    /\ calc.r = Label(sRegion, sVN)


\* The value of a scalar leaf as the claim has it: the text of a string, of
\* a number, of true and of false, and the empty string for null.
LeafValue(v) == IF v.t = "Null" THEN << >> ELSE v.s

\* The (path, value) pairs of the scalar leaves below v as the claim has
\* them: the path of a child is that of its parent, a dot, and the key or
\* the index of the child; at the top of the document it is the key or the
\* index alone.
RECURSIVE Leaves(_, _, _)
Leaves(v, parent, top) ==
    IF ~IsJSON(v) THEN {<< parent, LeafValue(v) >>}
    ELSE UNION {Leaves(v.kids[i].v,
                       (IF top THEN << >> ELSE parent \o << "." >>)
                       \o (IF v.t = "Array" THEN Itoa(i - 1) ELSE v.kids[i].k),
                       FALSE)
                : i \in 1..Len(v.kids)}

\* The texts of the documents none of whose pairs is suppressed.
UnsuppressedTexts == {t \in FlattenTexts : t.valid /\ t.doc \in LeafDocs \cup PlainDocs}

\* C17: for a valid document none of whose pairs is suppressed, parser_json
\* returns one label for each scalar leaf and no other label but the region
\* label when a region is found: its name is the sanitized path of the
\* leaf, with the key at each object level and the index at each array
\* level, and its value is the value of the leaf.
C17_OneLabelPerLeaf ==
    \A t \in UnsuppressedTexts :
        (calc.op = "parser_json" /\ calc.text = t)
            => LET leaves == Leaves(t.doc, << >>, TRUE)
               IN  /\ DOMAIN calc.r
                        = {validPath(p[1]) : p \in leaves}
                          \cup (IF t.region # << >> THEN {sRegion} ELSE {})
                   /\ \A p \in leaves : calc.r[validPath(p[1])] = p[2]
                   /\ Cardinality(leaves) = Cardinality({validPath(p[1]) : p \in leaves})


(***************************************************************************)
(* Claims on the handler and on the configuration                          *)
(***************************************************************************)

\* C18: an event of no known type does not fail the invocation with the
\* unknown-event error: it goes to processEvent, and when the invocation
\* returns nil one entry, whose line is the JSON of the event, was appended
\* and delivered.
C18_UnknownGoesToFallback ==
    (ev.kind = "unknown" /\ pc = "done")
        => /\ result # "unknown event type!"
           /\ result = "nil"
                  => /\ Len(appended) = 1
                     /\ appended[1].line = ev.text.raw
                     /\ AllDelivered


(***************************************************************************)
(* setupArguments and parseExtraLabels (main.go), applied once to an       *)
(* environment drawn by SetupInit                                          *)
(***************************************************************************)

\* strings.Split(s, sep) for a one-character separator.
Split(s, sep) ==
    LET seps   == {i \in 1..Len(s) : s[i] = sep}
        n      == Cardinality(seps)
        pos(k) == CHOOSE i \in seps : Cardinality({j \in seps : j < i}) = k - 1
    IN  [k \in 1..(n + 1) |->
            SubSeq(s, IF k = 1 THEN 1 ELSE pos(k - 1) + 1,
                      IF k = n + 1 THEN Len(s) ELSE pos(k) - 1)]

\* model.LabelName.IsValid: a letter or _, then letters, digits and _.
IsValidLabelName(n) ==
    /\ n # << >>
    /\ n[1] \in LabelNameChars \ {Digits[i] : i \in 1..Len(Digits)}
    /\ \A i \in 1..Len(n) : n[i] \in LabelNameChars

\* model.LabelSet.Validate: nil when every name is valid (every value of the
\* model is valid UTF-8).
Validate(l) ==
    IF \A n \in DOMAIN l : IsValidLabelName(n) THEN "nil" ELSE "invalid name"

sExtraPrefix == << "_", "_", "e", "x", "t", "r", "a", "_" >>
sTrue == << "t", "r", "u", "e" >>

\* prefix := "__extra_"; if omitPrefix { prefix = "" }
prefixOf(omitPrefix) == IF omitPrefix THEN << >> ELSE sExtraPrefix

\* The loop of parseExtraLabels over the pairs of the list, from item i on.
RECURSIVE extractLabels(_, _, _, _)
extractLabels(extraLabelsSplit, prefix, i, extractedLabels) ==
    IF i > Len(extraLabelsSplit) THEN extractedLabels
    ELSE extractLabels(extraLabelsSplit, prefix, i + 2,
                       [n \in DOMAIN extractedLabels \cup {prefix \o extraLabelsSplit[i]} |->
                           IF n = prefix \o extraLabelsSplit[i]
                           THEN extraLabelsSplit[i + 1]
                           ELSE extractedLabels[n]])

\* parseExtraLabels(extraLabelsRaw, omitPrefix): the label set (NoLabels for
\* Go's nil) and the error.
parseExtraLabels(extraLabelsRaw, omitPrefix) ==
    LET prefix           == prefixOf(omitPrefix)
        extraLabelsSplit == Split(extraLabelsRaw, ",")
        extractedLabels  == extractLabels(extraLabelsSplit, prefix, 1, NoLabels)
    IN  IF Len(extraLabelsRaw) < 1 THEN [labels |-> NoLabels, err |-> "nil"]
        ELSE IF Len(extraLabelsSplit) % 2 # 0
             THEN [labels |-> NoLabels, err |-> "invalidExtraLabelsError"]
        ELSE IF Validate(extractedLabels) # "nil"
             THEN [labels |-> NoLabels, err |-> Validate(extractedLabels)]
        ELSE [labels |-> extractedLabels, err |-> "nil"]

\* url.Parse(addr) fails: of its errors, the one for an address that starts
\* with a colon (missing protocol scheme).
urlParseFails(addr) == addr # << >> /\ addr[1] = ":"

\* A bearer token is accepted next to a username.
bearerAlwaysAllowed(username, bearerToken) == FALSE

\* username != "" && bearerToken != ""
bearerWithBasic(username, bearerToken) == username # << >> /\ bearerToken # << >>

\* setupArguments in the environment env: the panic it ends with ("none"
\* when it returns) and the extra labels it has set.
setupArguments(env) ==
    LET parsed == parseExtraLabels(env.EXTRA_LABELS,
                                   EqualFold(env.OMIT_EXTRA_LABELS_PREFIX, sTrue))
        panic(p) == [panic |-> p, extraLabels |-> NoLabels]
    IN  IF env.WRITE_ADDRESS = << >> THEN panic("WRITE_ADDRESS not present")
        ELSE IF urlParseFails(env.WRITE_ADDRESS) THEN panic("url.Parse")
        ELSE IF parsed.err # "nil" THEN panic(parsed.err)
        ELSE IF \/ env.USERNAME # << >> /\ env.PASSWORD = << >>
                \/ env.USERNAME = << >> /\ env.PASSWORD # << >>
             THEN panic("both username and password must be set if either one is set")
        ELSE IF bearerWithBasic(env.USERNAME, env.BEARER_TOKEN)
             THEN panic("both username and bearerToken are not allowed")
        ELSE [panic |-> "none", extraLabels |-> parsed.labels]

\* The values of EXTRA_LABELS.
ExtraLabelsRaws ==
    {<< >>,
     << "a", ",", "b" >>,
     << "a" >>,
     << "a", ",", "b", ",", "c" >>,
     << ",", "v" >>,
     << "a", "-", "b", ",", "v" >>,
     << "1", "a", ",", "v" >>,
     << "a", ",", "b", ",", "a", ",", "c" >>,
     << "a", ",", "b", ",", "c", ",", "d" >>,
     << "a", "," >>}

\* The environments of the process: WRITE_ADDRESS missing, an address, and
\* one url.Parse fails on.
Environments ==
    [WRITE_ADDRESS : {<< >>, << "h", "t", "t", "p", ":", "/", "/", "h", "/", "p", "u", "s", "h" >>, << ":", "h" >>},
     USERNAME : {<< >>, << "u" >>},
     PASSWORD : {<< >>, << "p" >>},
     BEARER_TOKEN : {<< >>, << "t" >>},
     EXTRA_LABELS : ExtraLabelsRaws,
     OMIT_EXTRA_LABELS_PREFIX : {<< >>, << "T", "R", "U", "E" >>}]

SetupInit ==
    /\ \E env \in Environments : calc = [op |-> "none", env |-> env]
    /\ PipelineIdle

\* main: setupArguments()
setup ==
    /\ calc.op = "none"
    /\ calc' = [op |-> "setupArguments", env |-> calc.env, r |-> setupArguments(calc.env)]
    /\ PureFrame

\* parseExtraLabels on EXTRA_LABELS and OMIT_EXTRA_LABELS_PREFIX.
parse ==
    /\ calc.op = "none"
    /\ calc' = [op |-> "parseExtraLabels", env |-> calc.env,
                r |-> parseExtraLabels(calc.env.EXTRA_LABELS,
                                       EqualFold(calc.env.OMIT_EXTRA_LABELS_PREFIX, sTrue))]
    /\ PureFrame

SetupNext == setup \/ parse

SetupSpec == SetupInit /\ [][SetupNext]_vars


\* setupArguments was applied to the environment and ended with a panic.
Panicked == calc.op = "setupArguments" /\ calc.r.panic # "none"

\* Exactly one of USERNAME and PASSWORD is set.
OneOfBasic(env) == (env.USERNAME = << >>) # (env.PASSWORD = << >>)

\* BEARER_TOKEN is set together with basic credentials.
BearerAndBasic(env) ==
    env.BEARER_TOKEN # << >> /\ (env.USERNAME # << >> \/ env.PASSWORD # << >>)

\* C19 as stated: setupArguments panics when WRITE_ADDRESS is missing, when
\* exactly one of USERNAME and PASSWORD is set, and when BEARER_TOKEN is set
\* together with basic credentials, and returns in every other case.
C19_AsStated ==
    calc.op = "setupArguments"
        => (Panicked <=> \/ calc.env.WRITE_ADDRESS = << >>
                         \/ OneOfBasic(calc.env)
                         \/ BearerAndBasic(calc.env))

\* C19: setupArguments panics when WRITE_ADDRESS is missing or is not
\* parsed by url.Parse, when parseExtraLabels rejects EXTRA_LABELS, when
\* exactly one of USERNAME and PASSWORD is set, and when BEARER_TOKEN is set
\* together with basic credentials, and returns in every other case.
C19_SetupPanics ==
    calc.op = "setupArguments"
        => (Panicked
            <=> \/ calc.env.WRITE_ADDRESS = << >>
                \/ urlParseFails(calc.env.WRITE_ADDRESS)
                \/ parseExtraLabels(calc.env.EXTRA_LABELS,
                                    EqualFold(calc.env.OMIT_EXTRA_LABELS_PREFIX, sTrue)).err
                       # "nil"
                \/ OneOfBasic(calc.env)
                \/ BearerAndBasic(calc.env))

C19_Witness ==
    /\ calc.op = "setupArguments"
    /\ calc.env.USERNAME # << >> /\ calc.env.PASSWORD # << >>
    /\ calc.env.BEARER_TOKEN # << >>
    /\ calc.r.panic = "both username and bearerToken are not allowed"


\* The keys of the list: its items at the odd places.
KeysOfList(items) == {items[i] : i \in {j \in 1..Len(items) : j % 2 = 1}}

\* The list is invalid: an odd number of items, an empty key, or a key that
\* is no valid label name.
InvalidList(extraLabelsRaw) ==
    LET items == Split(extraLabelsRaw, ",")
    IN  \/ Len(items) % 2 # 0
        \/ \E k \in KeysOfList(items) : k = << >> \/ ~IsValidLabelName(k)

\* C20: parseExtraLabels returns an error for every list with an odd number
\* of items, with an empty key or with a key that is no valid label name,
\* with the prefix __extra_ and without it, and the empty label set without
\* error for the empty setting.
C20_InvalidListRejected ==
    calc.op = "parseExtraLabels"
        => /\ calc.env.EXTRA_LABELS = << >>
                  => calc.r = [labels |-> NoLabels, err |-> "nil"]
           /\ (calc.env.EXTRA_LABELS # << >> /\ InvalidList(calc.env.EXTRA_LABELS))
                  => calc.r.err # "nil"


(***************************************************************************)
(* getS3Client (s3.go) called by concurrent invocations that share the map *)
(* s3Clients                                                               *)
(***************************************************************************)

\* The invocations and the regions of their buckets.
Invocations == {1, 2}
Regions == {"us-east-1", "eu-west-1"}

\* The calls of getS3Client the invocations make in all.
MaxCalls == 3

NoClient == 0

\* An invocation outside getS3Client.
Outside == [at |-> "out", region |-> "none", client |-> NoClient, ret |-> NoClient]

CacheInit ==
    /\ calc = [op |-> "getS3Client",
               s3Clients |-> [r \in {} |-> NoClient],
               inv |-> [i \in Invocations |-> Outside],
               writing |-> {},
               created |-> 0,
               calls |-> 0,
               inserts |-> [r \in Regions |-> 0],
               replaced |-> FALSE,
               crashed |-> FALSE]
    /\ PipelineIdle

CacheRunning == calc.op = "getS3Client" /\ ~calc.crashed

\* The map is touched while it is written by another invocation: a data
\* race, which the runtime may or may not stop with a fatal error.
Raced(i) == calc.writing \ {i} # {}

\* processS3Event: invocation i calls getS3Client(ctx, region).
getS3Client_call(i) ==
    /\ CacheRunning
    /\ calc.inv[i].at = "out"
    /\ calc.calls < MaxCalls
    /\ \E region \in Regions :
          calc' = [calc EXCEPT !.calls = @ + 1,
                               !.inv[i] = [at |-> "lookup", region |-> region,
                                           client |-> NoClient, ret |-> NoClient]]
    /\ PureFrame

\* c, ok := s3Clients[region]: the client of the map, or the way to a new
\* one.
getS3Client_lookup(i) ==
    /\ CacheRunning
    /\ calc.inv[i].at = "lookup"
    /\ \/ calc' = [calc EXCEPT !.inv[i].at =
                       IF calc.inv[i].region \in DOMAIN calc.s3Clients
                       THEN "return" ELSE "create",
                                !.inv[i].client =
                       IF calc.inv[i].region \in DOMAIN calc.s3Clients
                       THEN calc.s3Clients[calc.inv[i].region] ELSE NoClient]
       \/ /\ Raced(i)
          /\ calc' = [calc EXCEPT !.crashed = TRUE]
    /\ PureFrame

\* config.LoadDefaultConfig and s3.NewFromConfig: a new client, and the
\* write of the map begins.
getS3Client_create(i) ==
    /\ CacheRunning
    /\ calc.inv[i].at = "create"
    /\ \/ calc' = [calc EXCEPT !.created = @ + 1,
                                !.inv[i].client = calc.created + 1,
                                !.inv[i].at = "store",
                                !.writing = @ \cup {i}]
       \/ /\ Raced(i)
          /\ calc' = [calc EXCEPT !.crashed = TRUE]
    /\ PureFrame

\* s3Clients[region] = s3Client
getS3Client_store(i) ==
    /\ CacheRunning
    /\ calc.inv[i].at = "store"
    /\ LET region == calc.inv[i].region
       IN  calc' = [calc EXCEPT
                       !.s3Clients = [r \in DOMAIN calc.s3Clients \cup {region} |->
                                         IF r = region THEN calc.inv[i].client
                                         ELSE calc.s3Clients[r]],
                       !.inserts[region] = @ + 1,
                       !.replaced = @ \/ region \in DOMAIN calc.s3Clients,
                       !.writing = @ \ {i},
                       !.inv[i].at = "return"]
    /\ PureFrame

\* return s3Client, nil
getS3Client_return(i) ==
    /\ CacheRunning
    /\ calc.inv[i].at = "return"
    /\ calc' = [calc EXCEPT !.inv[i].at = "out", !.inv[i].ret = calc.inv[i].client]
    /\ PureFrame

getS3Client ==
    \E i \in Invocations :
        \/ getS3Client_call(i)
        \/ getS3Client_lookup(i)
        \/ getS3Client_create(i)
        \/ getS3Client_store(i)
        \/ getS3Client_return(i)

CacheNext == getS3Client

CacheSpec == CacheInit /\ [][CacheNext]_vars

\* C21: under any interleaving of the calls of getS3Client each region is
\* put into s3Clients at most once, an entry of the map is never replaced,
\* and a call that returns returns the client the map holds for its
\* region.
C21_InsertedOnce ==
    calc.op = "getS3Client"
        => /\ \A r \in Regions : calc.inserts[r] <= 1
           /\ ~calc.replaced
           /\ ~calc.crashed
           /\ \A i \in Invocations :
                  calc.inv[i].ret # NoClient
                      => calc.inv[i].ret = calc.s3Clients[calc.inv[i].region]


(***************************************************************************)
(* Concurrent invocations of handler, each with the batch of its own       *)
(* processS3Event or processEvent                                          *)
(***************************************************************************)

\* The entries the invocations append in all.
MaxAppends == 4

\* Every invocation uses one and the same batch.
batchOfProcess(i) == 1

\* batch, err := newBatch(ctx, pc): the batch is a local variable of the
\* call of processS3Event or processEvent that invocation i makes.
batchOf(i) == i

InvocationsInit ==
    /\ calc = [op |-> "invocations",
               kind |-> [i \in Invocations |-> "none"],
               at |-> [i \in Invocations |-> "handler"],
               batches |-> [i \in Invocations |-> << >>],
               sent |-> [i \in Invocations |-> << >>],
               n |-> 0]
    /\ PipelineIdle

\* processS3Event, processEvent: newBatch.
invocation_newBatch(i) ==
    /\ calc.op = "invocations"
    /\ calc.at[i] = "handler"
    /\ \E kind \in {"S3Event", "unknown"} :
          calc' = [calc EXCEPT !.kind[i] = kind,
                               !.at[i] = "append",
                               !.batches[batchOf(i)] = << >>]
    /\ PureFrame

\* parseS3Log, parserEvent: b.add of an entry to the batch they were given
\* (parserEvent adds one entry).
invocation_add(i) ==
    /\ calc.op = "invocations"
    /\ calc.at[i] = "append"
    /\ calc.n < MaxAppends
    /\ calc' = [calc EXCEPT !.n = @ + 1,
                            !.batches[batchOf(i)] = Append(@, [by |-> i, id |-> calc.n + 1]),
                            !.at[i] = IF calc.kind[i] = "unknown" THEN "send" ELSE "append"]
    /\ PureFrame

\* processS3Event, processEvent: sendToPromtail of the batch.
invocation_send(i) ==
    /\ calc.op = "invocations"
    /\ calc.at[i] \in {"append", "send"}
    /\ calc.kind[i] = "unknown" => calc.at[i] = "send"
    /\ calc' = [calc EXCEPT !.sent[i] = calc.batches[batchOf(i)],
                            !.at[i] = "done"]
    /\ PureFrame

invocation ==
    \E i \in Invocations :
        \/ invocation_newBatch(i)
        \/ invocation_add(i)
        \/ invocation_send(i)

InvocationsNext == invocation

InvocationsSpec == InvocationsInit /\ [][InvocationsNext]_vars

\* C22: under any interleaving of the invocations, the batch of an
\* invocation holds, and the invocation delivers, only entries that this
\* invocation appended.
C22_OwnBatch ==
    calc.op = "invocations"
        => \A i \in Invocations :
               /\ \A k \in 1..Len(calc.batches[i]) : calc.batches[i][k].by = i
               /\ \A k \in 1..Len(calc.sent[i]) : calc.sent[i][k].by = i

C22_Witness ==
    /\ calc.op = "invocations"
    /\ \A i \in Invocations : calc.at[i] = "done" /\ Len(calc.sent[i]) = 2
    /\ calc.sent[1][1].id < calc.sent[2][1].id
    /\ calc.sent[2][1].id < calc.sent[1][2].id


(***************************************************************************)
(* Claims on the labels and the timestamps of the appended entries         *)
(***************************************************************************)

\* The text whose bytes are the line of an entry.
TextOf(line) == CHOOSE t \in LogLines \cup UnknownEvents : t.raw = line

\* C23: in parseS3Log and in parserEvent alike, a label flattened from the
\* line of an entry has, in the label set of the entry, the value
\* flattened from the line, also when a static or an extra label has the
\* same name.
C23_FlattenedWins ==
    \A k \in 1..Len(appended) :
        LET flattened == parser_json(TextOf(appended[k].line))
        IN  \A n \in DOMAIN flattened : appended[k].labels[n] = flattened[n]


\* C24: the label set of the entry parseS3Log appends for a line is the
\* merge of the static labels of the object, the extra labels and the
\* labels flattened from that line, and holds no label that only an
\* earlier line of the object gave.
C24_LabelsOfTheLineOnly ==
    IsS3 => \A k \in 1..Len(appended) :
                \E m \in S3Records :
                    appended[k].labels
                        = Merge(staticLabels(m), parser_json(TextOf(appended[k].line)))


\* C25: an entry parseS3Log appends for a line from which no timestamp is
\* taken carries the time of processing, and not the timestamp taken from
\* an earlier line of the object.
C25_NoTimestampGivesNow ==
    IsS3 => \A k \in 1..Len(appended) :
                TextOf(appended[k].line).ts = "none" => appended[k].ts = "now"


\* C26: an entry without labels is rejected by b.add and adds nothing to
\* the batch, and the rejection does not end the invocation: it does not
\* return the error of the rejection, and goes on to deliver the batch.
C26_RejectionDoesNotAbort ==
    /\ \A k \in 1..Len(appended) : DOMAIN appended[k].labels # {}
    /\ pc = "done" => result \notin {"InvalidEntry", "error parsing log event"}


\* C27: after parseS3Log on one object, the threshold not reached, the
\* batch holds one stream with all the lines appended, and the key of the
\* stream is that of the static labels of the object (with the extra
\* labels) alone, whatever the lines are.
C27_OneStreamOfStaticLabels ==
    (IsS3 /\ nrec = 1 /\ pc = "records" /\ sendNo = 0 /\ appended # << >>)
        => /\ DOMAIN batch.streams = {StreamKey(staticLabels(labels))}
           /\ \A key \in DOMAIN batch.streams :
                  Len(batch.streams[key].entries) = Len(appended)


(***************************************************************************)
(* getLabels (s3.go), applied once to a record drawn by LabelsInit         *)
(***************************************************************************)

DigitChars == {Digits[i] : i \in 1..Len(Digits)}
WordChars == LabelNameChars
WordDashChars == WordChars \cup {"-"}
SrcChars == (LabelNameChars \ {"_"}) \cup {"-"}

\* s is a string of one or more characters of the class.
IsRun(s, class) == s # << >> /\ \A i \in 1..Len(s) : s[i] \in class

\* The longest prefix of s of characters of the class.
TakeWhile(s, class) ==
    LET n == CHOOSE k \in 0..Len(s) :
                 /\ \A j \in 1..k : s[j] \in class
                 /\ k = Len(s) \/ s[k + 1] \notin class
    IN  SubSeq(s, 1, n)

\* s ends with suffix.
EndsWith(s, suffix) ==
    Len(s) >= Len(suffix) /\ SubSeq(s, Len(s) - Len(suffix) + 1, Len(s)) = suffix

\* s is prefix followed by digits: year\=(\d+) and the like.
IsField(s, prefix) ==
    /\ Len(s) > Len(prefix)
    /\ SubSeq(s, 1, Len(prefix)) = prefix
    /\ IsRun(SubSeq(s, Len(prefix) + 1, Len(s)), DigitChars)

\* The digits of such a field.
FieldOf(s, prefix) == SubSeq(s, Len(prefix) + 1, Len(s))

sAWSLogs == << "A", "W", "S", "L", "o", "g", "s" >>
sYear == << "y", "e", "a", "r", "=" >>
sMonth == << "m", "o", "n", "t", "h", "=" >>
sDay == << "d", "a", "y", "=" >>
sHour == << "h", "o", "u", "r", "=" >>

\* The parts of segs from the i-th on, joined by "/" again.
RestFrom(segs, i) == Join(SubSeq(segs, i, Len(segs)), << "/" >>)

\* segs holds year=, month=, day= and hour= fields from the j-th part on,
\* and a part after them.
DateFieldsAt(segs, j) ==
    /\ j >= 1 /\ j + 4 <= Len(segs)
    /\ IsField(segs[j], sYear) /\ IsField(segs[j + 1], sMonth)
    /\ IsField(segs[j + 2], sDay) /\ IsField(segs[j + 3], sHour)

\* The captures of the date fields at j and of src after them.
DateCaptures(segs, j) ==
    [year |-> FieldOf(segs[j], sYear), month |-> FieldOf(segs[j + 1], sMonth),
     day |-> FieldOf(segs[j + 2], sDay), hour |-> FieldOf(segs[j + 3], sHour),
     src |-> RestFrom(segs, j + 4)]

\* filenameRegexWAF.FindStringSubmatch(key): the named captures, none when
\* the key does not match.
matchWAF(key) ==
    LET segs == Split(key, "/")
        at   == {i \in 1..Len(segs) : EndsWith(segs[i], sAWSLogs) /\ DateFieldsAt(segs, i + 1)}
    IN  IF at = {} THEN << >>
        ELSE DateCaptures(segs, (CHOOSE i \in at : \A k \in at : i <= k) + 1)

\* filenameRegexRDS.FindStringSubmatch(key): rds_instance takes all it can.
matchRDS(key) ==
    LET segs == Split(key, "/")
        at   == {j \in 3..Len(segs) : DateFieldsAt(segs, j)}
        j    == CHOOSE j \in at : \A k \in at : k <= j
    IN  IF at = {} THEN << >>
        ELSE Merge(DateCaptures(segs, j),
                   [rds_instance |-> Join(SubSeq(segs, 1, j - 2), << "/" >>),
                    log_type |-> segs[j - 1]])

\* The src of filenameRegex in the rest of the file name: after app, nlb or
\* net and the dots that follow it, or at once.
SrcOf(rest) ==
    LET prefixed == \E p \in {<< "a", "p", "p" >>, << "n", "l", "b" >>, << "n", "e", "t" >>} :
                        SubSeq(rest, 1, 3) = p
        after    == SubSeq(rest, 4, Len(rest))
        undotted == SubSeq(after, Len(TakeWhile(after, {"."})) + 1, Len(after))
    IN  IF prefixed /\ TakeWhile(undotted, SrcChars) # << >>
        THEN TakeWhile(undotted, SrcChars)
        ELSE TakeWhile(rest, SrcChars)

\* \w+-\w+-\d
IsRegion(s) ==
    LET parts == Split(s, "-")
    IN  /\ Len(parts) = 3
        /\ IsRun(parts[1], WordChars) /\ IsRun(parts[2], WordChars)
        /\ Len(parts[3]) = 1 /\ parts[3][1] \in DigitChars

\* The file name of a load balancer or flow log:
\* \d+_(elasticloadbalancing|vpcflowlogs)_\w+-\w+-\d_ and a src.
IsLogFile(name) ==
    LET parts == Split(name, "_")
    IN  /\ Len(parts) >= 4
        /\ IsRun(parts[1], DigitChars)
        /\ parts[2] \in {LB_LOG_TYPE, FLOW_LOG_TYPE}
        /\ IsRegion(parts[3])
        /\ SrcOf(Join(SubSeq(parts, 4, Len(parts)), << "_" >>)) # << >>

\* filenameRegex.FindStringSubmatch(key)
matchLB(key) ==
    LET segs == Split(key, "/")
        at   == {i \in 1..(Len(segs) - 7) :
                    /\ EndsWith(segs[i], sAWSLogs)
                    /\ IsRun(segs[i + 1], DigitChars)
                    /\ IsRun(segs[i + 2], WordChars)
                    /\ IsRun(segs[i + 3], WordDashChars)
                    /\ \A k \in 4..6 : IsRun(segs[i + k], DigitChars)
                    /\ IsLogFile(segs[i + 7])}
        i    == CHOOSE i \in at : \A k \in at : i <= k
        parts == Split(segs[i + 7], "_")
    IN  IF at = {} THEN << >>
        ELSE [account_id |-> segs[i + 1], type |-> segs[i + 2], region |-> segs[i + 3],
              year |-> segs[i + 4], month |-> segs[i + 5], day |-> segs[i + 6],
              src |-> SrcOf(Join(SubSeq(parts, 4, Len(parts)), << "_" >>))]

\* filenameRegexFirewall.FindStringSubmatch(key)
matchFirewall(key) ==
    LET segs == Split(key, "/")
        at   == {i \in 2..(Len(segs) - 10) :
                    /\ segs[i] = sAWSLogs
                    /\ segs[i - 1] # << >> /\ segs[i - 1][Len(segs[i - 1])] \in WordChars
                    /\ IsRun(segs[i + 1], DigitChars)
                    /\ IsRun(segs[i + 2], WordDashChars)
                    /\ IsRun(segs[i + 3], WordChars)
                    /\ IsRun(segs[i + 4], WordDashChars)
                    /\ IsRun(segs[i + 5], WordDashChars)
                    /\ \A k \in 6..9 : IsRun(segs[i + k], DigitChars)}
        i    == CHOOSE i \in at : \A k \in at : i <= k
        before == segs[i - 1]
        tail == CHOOSE n \in 1..Len(before) :
                    /\ IsRun(SubSeq(before, Len(before) - n + 1, Len(before)), WordChars)
                    /\ n = Len(before) \/ before[Len(before) - n] \notin WordChars
    IN  IF at = {} THEN << >>
        ELSE [log_type |-> IF i = 2 THEN SubSeq(before, Len(before) - tail + 1, Len(before))
                           ELSE before,
              account_id |-> segs[i + 1], type |-> segs[i + 2], src |-> segs[i + 3],
              region |-> segs[i + 4], firewall_name |-> segs[i + 5],
              year |-> segs[i + 6], month |-> segs[i + 7], day |-> segs[i + 8],
              hour |-> segs[i + 9], log_file |-> RestFrom(segs, i + 10)]

\* The characters the escapes of the keys stand for.
Unescaped == (<< "3", "D" >> :> "=") @@ (<< "2", "F" >> :> "/")

\* url.PathUnescape(s): the string with its %XX escapes replaced, and
\* whether every % is followed by an escape.
PathUnescape(s) ==
    LET pcts == {i \in 1..Len(s) : s[i] = "%"}
        ok   == \A i \in pcts : i + 2 <= Len(s) /\ SubSeq(s, i + 1, i + 2) \in DOMAIN Unescaped
        kept == {i \in 1..Len(s) : i - 1 \notin pcts /\ i - 2 \notin pcts}
        at(k) == CHOOSE p \in kept : Cardinality({q \in kept : q <= p}) = k
    IN  IF pcts = {} THEN [ok |-> TRUE, s |-> s]
        ELSE IF ~ok THEN [ok |-> FALSE, s |-> << >>]
        ELSE [ok |-> TRUE,
              s |-> [k \in 1..Cardinality(kept) |->
                        IF s[at(k)] = "%" THEN Unescaped[SubSeq(s, at(k) + 1, at(k) + 2)]
                        ELSE s[at(k)]]]

\* getLabels(record)
getLabels(record) ==
    LET decodeKey == PathUnescape(record.key)
        key       == IF decodeKey.ok THEN decodeKey.s ELSE record.key
        l0 == [key |-> key, bucket |-> record.bucket,
               bucket_owner |-> record.owner, bucket_region |-> record.region]
        l1 == Merge(l0, matchLB(key))
        l2 == Merge(l1, matchFirewall(key))
        l3 == IF matchRDS(key) = << >> THEN l2
              ELSE Merge(Merge(l2, matchRDS(key)),
                         [type |-> RDS_LOG_TYPE, src |-> record.bucket,
                          account_id |-> record.owner])
        l4 == IF matchWAF(key) = << >> THEN l3
              ELSE Merge(Merge(l3, matchWAF(key)),
                         [type |-> WAF_LOG_TYPE, src |-> record.bucket,
                          account_id |-> record.owner])
    IN  l4

RdsKey == << "m", "o", "t", "h", "e", "r", "s", "h", "i", "p", "-", "i", "n", "s", "t", "a", "n", "c", "e", "-", "1", "/", "g", "e", "n", "e", "r", "a", "l", "_", "l", "o", "g", "/", "y", "e", "a", "r", "=", "2", "0", "2", "3", "/", "m", "o", "n", "t", "h", "=", "0", "4", "/", "d", "a", "y", "=", "0", "7", "/", "h", "o", "u", "r", "=", "0", "8", "/", "1", "6", "8", "0", "8", "5", "7", "1", "0", "0", "4", "9", "5", ".", "l", "o", "g" >>
WafKey == << "A", "W", "S", "L", "o", "g", "s", "/", "y", "e", "a", "r", "=", "2", "0", "2", "3", "/", "m", "o", "n", "t", "h", "=", "0", "3", "/", "d", "a", "y", "=", "1", "0", "/", "h", "o", "u", "r", "=", "0", "3", "/", "a", "w", "s", "-", "w", "a", "f", "-", "l", "o", "g", "s", "-", "s", "t", "r", "e", "a", "m", "-", "2", "-", "2", "0", "2", "3", "-", "0", "3", "-", "1", "0", "-", "0", "3", "-", "2", "0", "-", "5", "6", "-", "f", "a", "f", "a", "b", "3", "d", "8" >>
WafKeyEscaped == << "A", "W", "S", "L", "o", "g", "s", "/", "y", "e", "a", "r", "%", "3", "D", "2", "0", "2", "3", "/", "m", "o", "n", "t", "h", "%", "3", "D", "0", "3", "/", "d", "a", "y", "%", "3", "D", "1", "0", "/", "h", "o", "u", "r", "%", "3", "D", "0", "3", "/", "a", "w", "s", "-", "w", "a", "f", "-", "l", "o", "g", "s", "-", "s", "t", "r", "e", "a", "m", "-", "2" >>
LbKey == << "m", "y", "-", "b", "u", "c", "k", "e", "t", "/", "A", "W", "S", "L", "o", "g", "s", "/", "1", "2", "3", "4", "5", "6", "7", "8", "9", "0", "1", "2", "/", "e", "l", "a", "s", "t", "i", "c", "l", "o", "a", "d", "b", "a", "l", "a", "n", "c", "i", "n", "g", "/", "u", "s", "-", "e", "a", "s", "t", "-", "1", "/", "2", "0", "2", "2", "/", "0", "1", "/", "2", "4", "/", "1", "2", "3", "4", "5", "6", "7", "8", "9", "0", "1", "2", "_", "e", "l", "a", "s", "t", "i", "c", "l", "o", "a", "d", "b", "a", "l", "a", "n", "c", "i", "n", "g", "_", "u", "s", "-", "e", "a", "s", "t", "-", "1", "_", "a", "p", "p", ".", "m", "y", "-", "l", "o", "a", "d", "b", "a", "l", "a", "n", "c", "e", "r", ".", "b", "1", "3", "e", "a", "9", "d", "1", "9", "f", "1", "6", "d", "0", "1", "5", "_", "2", "0", "2", "2", "0", "1", "2", "4", "T", "0", "0", "0", "0", "Z", "_", "0", ".", "0", ".", "0", ".", "0", "_", "2", "e", "t", "2", "e", "1", "m", "x", ".", "l", "o", "g", ".", "g", "z" >>
FlowKey == << "m", "y", "-", "b", "u", "c", "k", "e", "t", "/", "A", "W", "S", "L", "o", "g", "s", "/", "1", "2", "3", "4", "5", "6", "7", "8", "9", "0", "1", "2", "/", "v", "p", "c", "f", "l", "o", "w", "l", "o", "g", "s", "/", "u", "s", "-", "e", "a", "s", "t", "-", "1", "/", "2", "0", "2", "2", "/", "0", "1", "/", "2", "4", "/", "1", "2", "3", "4", "5", "6", "7", "8", "9", "0", "1", "2", "_", "v", "p", "c", "f", "l", "o", "w", "l", "o", "g", "s", "_", "u", "s", "-", "e", "a", "s", "t", "-", "1", "_", "f", "l", "-", "1", "2", "3", "4", "a", "b", "c", "d", "_", "2", "0", "1", "8", "0", "6", "2", "0", "T", "1", "6", "2", "0", "Z", "_", "f", "e", "1", "2", "3", "4", "5", "6", ".", "l", "o", "g", ".", "g", "z" >>
FirewallKey == << "f", "w", "/", "A", "W", "S", "L", "o", "g", "s", "/", "1", "/", "n", "e", "t", "w", "o", "r", "k", "-", "f", "i", "r", "e", "w", "a", "l", "l", "/", "a", "l", "e", "r", "t", "/", "u", "s", "-", "e", "a", "s", "t", "-", "1", "/", "f", "w", "1", "/", "2", "0", "2", "2", "/", "0", "1", "/", "2", "4", "/", "0", "3", "/", "f", ".", "l", "o", "g" >>

\* The keys of the objects: the keys of Test_getLabels, a firewall key, a
\* key of no known shape and one that is no valid escape.
ObjectKeys ==
    {RdsKey, WafKey, WafKeyEscaped, LbKey, FlowKey, FirewallKey,
     << "l", "o", "g", "s", "/", "a", "p", "p", ".", "l", "o", "g" >>, << "l", "o", "g", "s", "/", "1", "0", "0", "%", "z", "z" >>}

\* The records of an S3 event.
EventRecords ==
    [key : ObjectKeys,
     bucket : {<< "r", "d", "s", "_", "l", "o", "g", "s", "_", "t", "e", "s", "t" >>, << "b" >>},
     owner : {<< "t", "e", "s", "t" >>, << "7" >>},
     region : {<< "u", "s", "-", "e", "a", "s", "t", "-", "1" >>, << "e", "u", "-", "w", "e", "s", "t", "-", "1" >>}]

LabelsInit ==
    /\ \E record \in EventRecords : calc = [op |-> "none", record |-> record]
    /\ PipelineIdle

\* processS3Event: labels, err := getLabels(record)
labelsOfRecord ==
    /\ calc.op = "none"
    /\ calc' = [op |-> "getLabels", record |-> calc.record, r |-> getLabels(calc.record)]
    /\ PureFrame

LabelsNext == labelsOfRecord

LabelsSpec == LabelsInit /\ [][LabelsNext]_vars


(***************************************************************************)
(* The threshold of setupArguments (main.go), set once from a value of      *)
(* BATCH_SIZE drawn by ThresholdInit                                        *)
(***************************************************************************)

\* strconv.ParseInt(s, 10, 64): an optional sign and digits.
ParseInt(s) ==
    LET signed == s # << >> /\ s[1] \in {"+", "-"}
        digits == IF signed THEN Tail(s) ELSE s
    IN  IF ~IsRun(digits, DigitChars) THEN [n |-> 0, err |-> TRUE]
        ELSE [n |-> IF signed /\ s[1] = "-" THEN 0 - Atoi(digits, 0) ELSE Atoi(digits, 0),
              err |-> FALSE]

\* batchSize = 131072; if batch != "" { batchSize, _ = strconv.Atoi(batch) }
batchSizeOf(setting) ==
    IF setting # << >> THEN ParseInt(setting).n ELSE 131072

MaxBatchLen == 3

\* The values of BATCH_SIZE: every string of up to MaxBatchLen of these
\* characters, the empty one for a variable that is not set.
BatchSettings == UNION {[1..n -> {"-", "0", "1", "7", "x"}] : n \in 0..MaxBatchLen}

ThresholdInit ==
    /\ \E setting \in BatchSettings : calc = [op |-> "none", batch |-> setting]
    /\ PipelineIdle

\* setupArguments, from os.Getenv("BATCH_SIZE") on.
setBatchSize ==
    /\ calc.op = "none"
    /\ calc' = [op |-> "setBatchSize", batch |-> calc.batch, batchSize |-> batchSizeOf(calc.batch)]
    /\ PureFrame

ThresholdNext == setBatchSize

ThresholdSpec == ThresholdInit /\ [][ThresholdNext]_vars

(***************************************************************************)
(* The timestamp of a line in parseS3Log (s3.go), worked out once for a     *)
(* line, a type and a log_type drawn by TimestampInit                       *)
(***************************************************************************)

\* gjson's Result.String()
ResultString(v) ==
    IF v.t \in {"String", "Number", "True", "False"} THEN v.s
    ELSE IF v.t = "Null" THEN << >>
    ELSE Json(v)

\* The number a string of two digits stands for, -1 otherwise.
TwoDigits(s) == IF Len(s) = 2 /\ IsRun(s, DigitChars) THEN Atoi(s, 0) ELSE -1

\* \d+-\d+-\d+T\d+:\d+:\d+\.\d+ : the fields year, month, day, hour,
\* minute, second and fraction of such a string, none when it has another
\* shape.
TimeFields(s) ==
    LET halves == Split(s, "T")
        date   == Split(halves[1], "-")
        clock  == Split(halves[2], ":")
        second == Split(clock[3], ".")
    IN  IF /\ Len(halves) = 2 /\ Len(date) = 3 /\ Len(clock) = 3 /\ Len(second) = 2
           /\ \A f \in {date[1], date[2], date[3], clock[1], clock[2], second[1], second[2]} :
                  IsRun(f, DigitChars)
        THEN << date[1], date[2], date[3], clock[1], clock[2], second[1], second[2] >>
        ELSE << >>

\* timestampRegex.FindStringSubmatch(log_line): the capture after the
\* leftmost word and space that one follows, none when there is no match.
matchTimestamp(log_line) ==
    LET stamp(i) == TakeWhile(SubSeq(log_line, i + 2, Len(log_line)),
                              DigitChars \cup {"-", "T", ":", "."})
        at == {i \in 1..(Len(log_line) - 2) :
                  /\ log_line[i] \in WordChars /\ log_line[i + 1] = " "
                  /\ i + 2 + Len(stamp(i)) <= Len(log_line)
                  /\ log_line[i + 2 + Len(stamp(i))] = "Z"
                  /\ TimeFields(stamp(i)) # << >>}
    IN  IF at = {} THEN << >>
        ELSE stamp(CHOOSE i \in at : \A k \in at : i <= k) \o << "Z" >>

\* time.Parse of a string of that shape accepts it: four digits of year,
\* two of month, day, hour, minute and second, each in its range.
timeParseOk(s) ==
    LET f == TimeFields(SubSeq(s, 1, Len(s) - 1))
    IN  /\ s # << >> /\ s[Len(s)] = "Z" /\ f # << >>
        /\ Len(f[1]) = 4
        /\ TwoDigits(f[2]) \in 1..12 /\ TwoDigits(f[3]) \in 1..31
        /\ TwoDigits(f[4]) \in 0..23 /\ TwoDigits(f[5]) \in 0..59
        /\ TwoDigits(f[6]) \in 0..59

\* time.Parse("2006-01-02T15:04:05.000000Z", s) accepts s.
timeParseMicroOk(s) ==
    timeParseOk(s) /\ Len(TimeFields(SubSeq(s, 1, Len(s) - 1))[7]) = 6

TimeNow == [kind |-> "Now", v |-> << >>]
TimeParsed(s) == [kind |-> "Parse", v |-> s]
TimeUnix(n) == [kind |-> "Unix", v |-> n]

sTimestamp == << "t", "i", "m", "e", "s", "t", "a", "m", "p" >>
sEventTimestamp == << "e", "v", "e", "n", "t", "_", "t", "i", "m", "e", "s", "t", "a", "m", "p" >>
sAudit == << "a", "u", "d", "i", "t" >>

\* s[:len(s)-n] and strconv.ParseInt of it: the time of that number of
\* seconds, the time before when it is no number, and a panic when s is
\* shorter than n.
unixOfCut(s, n, before) ==
    IF Len(s) < n THEN [outcome |-> "panic", timestamp |-> before]
    ELSE LET intTime == ParseInt(SubSeq(s, 1, Len(s) - n))
         IN  [outcome |-> "add",
              timestamp |-> IF intTime.err THEN before ELSE TimeUnix(intTime.n)]

\* The body of the loop of parseS3Log for one line, down to b.add: the
\* timestamp of the entry and whether the line is added, parseS3Log returns
\* the error of time.Parse, or the slice expression panics.
lineTimestamp(type, log_type, text, before) ==
    LET log_line  == text.raw
        match     == matchTimestamp(log_line)
        t1        == IF match = << >> THEN before ELSE TimeParsed(match)
        audit     == unixOfCut(Split(log_line, ",")[1], 6, t1)
        first     == Split(log_line, " ")[1]
        waf       == unixOfCut(ResultString(Get(text, sTimestamp)), 3, t1)
        firewall  == unixOfCut(ResultString(Get(text, sEventTimestamp)), 0, t1)
    IN  IF match # << >> /\ ~timeParseOk(match)
        THEN [outcome |-> "error", timestamp |-> TimeParsed(match)]
        ELSE IF type = RDS_LOG_TYPE
        THEN IF Contains(log_type, sAudit) /\ audit.outcome = "panic" THEN audit
             ELSE [outcome |-> "add",
                   timestamp |-> IF timeParseMicroOk(first) THEN TimeParsed(first)
                                 ELSE IF Contains(log_type, sAudit) THEN audit.timestamp
                                 ELSE t1]
        ELSE IF type = WAF_LOG_TYPE THEN waf
        ELSE IF type = NETWORK_FIREWALL_LOG_TYPE THEN firewall
        ELSE [outcome |-> "add", timestamp |-> t1]

\* A line that is no JSON document.
PlainLine(raw) ==
    Text(raw, FALSE, Null, << >>,
         IF matchTimestamp(raw) = << >> THEN "none"
         ELSE IF timeParseOk(matchTimestamp(raw)) THEN "t1" ELSE "bad")

\* The lines of the objects: WAF records with a timestamp of milliseconds,
\* of two digits, of text and with none, a firewall record, audit lines of
\* RDS with a first field of microseconds, of three digits and empty, a
\* line of the RDS general log, a line of a load balancer, and plain ones.
StampedLines ==
    {Doc(Obj(<< KV(sTimestamp, Num(<< "1", "6", "7", "8", "4", "1", "7", "2", "5", "6", "0", "0", "0" >>)) >>), << >>),
     Doc(Obj(<< KV(sTimestamp, Num(<< "1", "2" >>)) >>), << >>),
     Doc(Obj(<< KV(sTimestamp, Str(<< "s", "o", "o", "n" >>)) >>), << >>),
     Doc(Obj(<< KV(sEventTimestamp, Str(<< "1", "6", "7", "8", "4", "1", "7", "2", "5", "6" >>)) >>), << >>),
     LineJsonX,
     PlainLine(<< "1", "6", "8", "0", "8", "5", "7", "1", "0", "0", "4", "9", "5", "1", "2", "3", ",", "h", "o", "s", "t", ",", "u", "s", "e", "r", ",", "Q", "U", "E", "R", "Y" >>),
     PlainLine(<< "1", "2", "3", ",", "h", "o", "s", "t" >>),
     PlainLine(<< >>),
     PlainLine(<< "2", "0", "2", "3", "-", "0", "4", "-", "0", "7", "T", "0", "8", ":", "4", "5", ":", "0", "0", ".", "1", "2", "3", "4", "5", "6", "Z", " ", "1", "2", " ", "[", "N", "o", "t", "e", "]", " ", "u", "p" >>),
     PlainLine(<< "h", "t", "t", "p", " ", "2", "0", "2", "2", "-", "0", "1", "-", "2", "4", "T", "0", "0", ":", "0", "0", ":", "0", "0", ".", "1", "2", "3", "4", "5", "6", "Z", " ", "a", "p", "p", "/", "m", "y", "-", "l", "b" >>),
     LineTs, LineBadTs}

TimestampInit ==
    /\ \E text \in StampedLines :
       \E type \in {FLOW_LOG_TYPE, LB_LOG_TYPE, RDS_LOG_TYPE, WAF_LOG_TYPE,
                    NETWORK_FIREWALL_LOG_TYPE} :
       \E log_type \in {<< >>, sAudit, << "g", "e", "n", "e", "r", "a", "l", "_", "l", "o", "g" >>} :
           calc = [op |-> "none", text |-> text, type |-> type, log_type |-> log_type]
    /\ PipelineIdle

\* parseS3Log: one turn of the loop, the timestamp being that of
\* time.Now() before it.
stampLine ==
    /\ calc.op = "none"
    /\ calc' = [op |-> "stampLine", text |-> calc.text, type |-> calc.type,
                log_type |-> calc.log_type,
                r |-> lineTimestamp(calc.type, calc.log_type, calc.text, TimeNow)]
    /\ PureFrame

TimestampNext == stampLine

TimestampSpec == TimestampInit /\ [][TimestampNext]_vars

(***************************************************************************)
(* Claims on getLabels, on the threshold and on the timestamps of the lines *)
(***************************************************************************)

\* The named captures of the patterns the key matches.
CapturesOf(key) ==
    DOMAIN matchLB(key) \cup DOMAIN matchFirewall(key)
        \cup DOMAIN matchRDS(key) \cup DOMAIN matchWAF(key)

\* C28: getLabels returns the keys key, bucket, bucket_owner and
\* bucket_region, the named captures of the pattern the key matches and
\* type, and no others; for a key of the WAF shape type is waf and src is the
\* object name captured from the key, for a key of the RDS shape type is rds
\* and src is the bucket, and neither result holds account_id.
C28_KeysOfGetLabels ==
    (calc.op = "getLabels") =>
        LET r   == calc.r
            waf == matchWAF(r.key)
            rds == matchRDS(r.key)
        IN  /\ {"key", "bucket", "bucket_owner", "bucket_region"} \cup CapturesOf(r.key)
                   \subseteq DOMAIN r
            /\ DOMAIN r \subseteq
                   {"key", "bucket", "bucket_owner", "bucket_region", "type"}
                       \cup CapturesOf(r.key)
            /\ (waf # << >>) =>
                   /\ r.type = WAF_LOG_TYPE /\ r.src = waf.src
                   /\ "account_id" \notin DOMAIN r
            /\ (rds # << >> /\ waf = << >>) =>
                   /\ r.type = RDS_LOG_TYPE /\ r.src = calc.record.bucket
                   /\ "account_id" \notin DOMAIN r

\* C29: after setupArguments the threshold batchSize is a positive integer:
\* 131072 when BATCH_SIZE is not set, the configured number otherwise; a
\* value that is no positive integer never leaves it at zero or below.
C29_ThresholdPositive ==
    (calc.op = "setBatchSize") =>
        /\ calc.batchSize > 0
        /\ (calc.batch = << >>) => calc.batchSize = 131072
        /\ (IsRun(calc.batch, DigitChars) /\ Atoi(calc.batch, 0) > 0)
               => calc.batchSize = Atoi(calc.batch, 0)

\* C30: parseS3Log never stops with a slice index out of range: for every
\* line and every type, a WAF line with no timestamp or one shorter than 3
\* characters and an audit line of RDS with a first field shorter than 6
\* included, the line is added or an error is returned.
C30_NoRuntimeFailure ==
    (calc.op = "stampLine") => calc.r.outcome \in {"add", "error"}

====
